---- MODULE Spec2Model ----
(***************************************************************************)
(* writer-ai rust_service: the cache-aside request pipeline.               *)
(*                                                                         *)
(*   cache.rs  CacheEntry codec, CacheManager (sled key-value store)       *)
(*   http.rs   process_text_handler (lookup -> provider -> store)          *)
(*   llm.rs    query_llm (the request and the provider's response)         *)
(*   errors.rs AppError and its HTTP response                              *)
(*                                                                         *)
(* Strings are sequences of one-character strings; a byte sequence is the  *)
(* same (the alphabet is ASCII, one byte per character).                   *)
(*                                                                         *)
(* The specifications share the definitions:                               *)
(*   Spec       one caller driving the CacheManager API call by call       *)
(*   SpecPipe   concurrent process_text_handler tasks over one store       *)
(*   SpecCodec  CacheEntry::to_bytes / from_bytes on enumerated entries    *)
(*   SpecSweep  a store found on disk, opened and driven under failures    *)
(*   SpecBytes  CacheEntry::from_bytes on enumerated byte sequences        *)
(*   SpecTtl    CacheEntry::new over the range of ttl_days                 *)
(*   SpecLlm    query_llm parsing the body of a success response           *)
(*   SpecQuery  one call of query_llm, from the request to its result      *)
(*   SpecErr    AppError::into_response over the errors of every variant   *)
(*   SpecKey    the string generate_key hashes, for pairs of triples       *)
(*   SpecLong   the handler with responses above the logged length         *)
(*   SpecRace   lookup, store and cleanup_expired interleaved              *)
(*   SpecRuns   two runs under two configurations over one store           *)
(***************************************************************************)
EXTENDS Integers, Sequences, FiniteSets, TLC

VARIABLES
    db,        \* sled::Db: key -> stored bytes (DOMAIN db = keys present)
    written,   \* history: key -> the CacheEntry that store serialized into db[key]
    now,       \* SystemTime::now() in seconds since UNIX_EPOCH
    enabled,   \* CacheConfig.enabled
    ttl_days,  \* CacheConfig.ttl_days
    last,      \* Spec: the last CacheManager call, its arguments and its result
    nops,      \* Spec: number of calls made so far
    tasks,     \* SpecPipe: per task, the position and locals of process_text_handler
    nreqs,     \* SpecPipe: number of requests accepted so far
    codec,     \* SpecCodec: an entry, its bytes and what from_bytes makes of them
    call       \* SpecTtl, SpecLlm, SpecQuery, SpecErr, SpecKey: one call, its arguments and its result

cacheVars == <<db, written, now, enabled, ttl_days>>
apiVars   == <<last, nops>>
pipeVars  == <<tasks, nreqs>>
vars      == <<db, written, now, enabled, ttl_days, last, nops, tasks, nreqs, codec, call>>

----------------------------------------------------------------------------
(* Bounds of the model *)

\* Spec: CacheManager calls per behaviour
MaxOps == 3
\* the clock runs over the first seconds of the days 0..MaxDay
MaxDay == 0
\* SpecPipe: requests accepted per behaviour
MaxReqs == 2
\* SpecCodec: longest response text of an enumerated entry
MaxRespLen == 2

(* Program constants *)

\* 24 * 60 * 60, the seconds of one ttl day
DaySecs == 86400

----------------------------------------------------------------------------
(* Characters and strings *)

Pipe == "|"

Digits == <<"0", "1", "2", "3", "4", "5", "6", "7", "8", "9">>

Letters == <<"a", "b", "m", "n", "r", "s">>

\* every character the bounded inputs are written in
Alphabet == Letters \o <<Pipe, "+">> \o Digits

\* a byte that begins no valid UTF-8 sequence
BadByte == "\\xFF"

IsDigit(c) == \E i \in 1..10 : Digits[i] = c

DigitVal(c) == (CHOOSE i \in 1..10 : Digits[i] = c) - 1

CharCode(c) == CHOOSE i \in 1..Len(Alphabet) : Alphabet[i] = c

\* format!("{}", n) of an unsigned integer: decimal, no sign, no padding
RECURSIVE Dec(_)
Dec(n) == IF n < 10 THEN <<Digits[n + 1]>>
          ELSE Dec(n \div 10) \o <<Digits[(n % 10) + 1]>>

RECURSIVE DigitsValue(_)
DigitsValue(s) == IF s = <<>> THEN 0
                  ELSE 10 * DigitsValue(SubSeq(s, 1, Len(s) - 1)) + DigitVal(s[Len(s)])

\* u64::MAX in decimal
U64MaxDigits ==
    <<"1", "8", "4", "4", "6", "7", "4", "4", "0", "7",
      "3", "7", "0", "9", "5", "5", "1", "6", "1", "5">>

\* a digit string without its leading zeros
RECURSIVE StripZeros(_)
StripZeros(s) == IF Len(s) > 1 /\ s[1] = "0" THEN StripZeros(Tail(s)) ELSE s

\* the numeral s is above u64::MAX (PosOverflow of the parse)
ExceedsU64(s) ==
    LET z == StripZeros(s)
    IN  \/ Len(z) > Len(U64MaxDigits)
        \/ /\ Len(z) = Len(U64MaxDigits)
           /\ \E i \in 1..Len(z) :
                 /\ DigitVal(z[i]) > DigitVal(U64MaxDigits[i])
                 /\ \A j \in 1..(i - 1) : z[j] = U64MaxDigits[j]

\* str::parse::<u64>: an optional leading '+', then one or more decimal
\* digits, of a value that fits 64 bits
parse_u64(s) ==
    LET body == IF s # <<>> /\ s[1] = "+" THEN Tail(s) ELSE s
    IN  IF body # <<>> /\ (\A i \in 1..Len(body) : IsDigit(body[i])) /\ ~ExceedsU64(body)
        THEN [ok |-> TRUE, val |-> DigitsValue(body)]
        ELSE [ok |-> FALSE, val |-> 0]

\* index of the first occurrence of c in s, 0 when there is none
FirstIndex(s, c) ==
    IF \E i \in 1..Len(s) : s[i] = c
    THEN CHOOSE i \in 1..Len(s) : s[i] = c /\ \A j \in 1..(i - 1) : s[j] # c
    ELSE 0

\* str::splitn(n, c): at most n parts, the last part is the unsplit rest
RECURSIVE splitn(_, _, _)
splitn(n, c, s) ==
    LET i == FirstIndex(s, c)
    IN  IF n <= 1 \/ i = 0 THEN <<s>>
        ELSE <<SubSeq(s, 1, i - 1)>> \o splitn(n - 1, c, SubSeq(s, i + 1, Len(s)))

----------------------------------------------------------------------------
(* CacheEntry *)

NoEntry == [response |-> <<>>, created_at |-> -1, expires_at |-> -1]

\* CacheEntry::new at clock value t
CacheEntry_new(response, ttl, t) ==
    [response |-> response, created_at |-> t, expires_at |-> t + (ttl * DaySecs)]

to_bytes(e) ==
    e.response \o <<Pipe>> \o Dec(e.created_at) \o <<Pipe>> \o Dec(e.expires_at)

\* mutant: a timestamp that does not parse is taken to be 0 (unwrap_or(0))
from_bytes_defaulting(bytes) ==
    IF \E i \in 1..Len(bytes) : bytes[i] = BadByte
    THEN [ok |-> FALSE, err |-> "Failed to deserialize cache entry", entry |-> NoEntry]
    ELSE
    LET parts == splitn(3, Pipe, bytes)
    IN  IF Len(parts) # 3
        THEN [ok |-> FALSE, err |-> "Invalid cache entry format", entry |-> NoEntry]
        ELSE [ok |-> TRUE, err |-> "",
              entry |-> [response |-> parts[1], created_at |-> parse_u64(parts[2]).val,
                         expires_at |-> parse_u64(parts[3]).val]]

from_bytes(bytes) ==
    IF \E i \in 1..Len(bytes) : bytes[i] = BadByte
    THEN [ok |-> FALSE, err |-> "Failed to deserialize cache entry", entry |-> NoEntry]
    ELSE
    LET parts == splitn(3, Pipe, bytes)
    IN  IF Len(parts) # 3
        THEN [ok |-> FALSE, err |-> "Invalid cache entry format", entry |-> NoEntry]
        ELSE
        LET created == parse_u64(parts[2])
            expires == parse_u64(parts[3])
        IN  IF ~created.ok
            THEN [ok |-> FALSE, err |-> "Invalid created_at timestamp", entry |-> NoEntry]
            ELSE IF ~expires.ok
            THEN [ok |-> FALSE, err |-> "Invalid expires_at timestamp", entry |-> NoEntry]
            ELSE [ok |-> TRUE, err |-> "",
                  entry |-> [response |-> parts[1], created_at |-> created.val,
                             expires_at |-> expires.val]]

\* mutant: an entry counts as expired at its expires_at already
is_expired_at_boundary(e, t) == e.expires_at <= t

\* CacheEntry::is_expired at clock value t
is_expired(e, t) == e.expires_at < t

----------------------------------------------------------------------------
(* CacheManager::generate_key *)

\* DefaultHasher (SipHash-1-3, 64 bit) of a string.  The model takes it to be
\* collision free on the bounded inputs: the value is the string read as a
\* numeral, so two strings hash alike exactly when they are equal.
RECURSIVE DefaultHash(_)
DefaultHash(s) ==
    IF s = <<>> THEN 0
    ELSE DefaultHash(SubSeq(s, 1, Len(s) - 1)) * (Len(Alphabet) + 1) + CharCode(s[Len(s)])

\* mutant: the bytes of the hash least significant first
to_le_bytes(h) ==
    <<h % 256, (h \div 256) % 256, (h \div 65536) % 256, (h \div 16777216) % 256, 0, 0, 0, 0>>

\* u64::to_be_bytes: 8 bytes, most significant first (hashes here are below 2^32)
to_be_bytes(h) ==
    <<0, 0, 0, 0, (h \div 16777216) % 256, (h \div 65536) % 256, (h \div 256) % 256, h % 256>>

\* format!("{}|{}|{}", model, prompt_template_hash, text)
combined(text, model, prompt_template_hash) ==
    model \o <<Pipe>> \o Dec(prompt_template_hash) \o <<Pipe>> \o text

\* mutant: the model is left out of the hashed string
generate_key_without_model(text, model, prompt_template_hash) ==
    to_be_bytes(DefaultHash(Dec(prompt_template_hash) \o <<Pipe>> \o text))

generate_key(text, model, prompt_template_hash) ==
    to_be_bytes(DefaultHash(combined(text, model, prompt_template_hash)))

----------------------------------------------------------------------------
(* sled::Db as a function from the keys present to their bytes *)

db_insert(d, key, bytes) == [k \in DOMAIN d \cup {key} |-> IF k = key THEN bytes ELSE d[k]]

db_remove(d, key) == [k \in DOMAIN d \ {key} |-> d[k]]

EmptyDb == [k \in {} |-> <<>>]

----------------------------------------------------------------------------
(* Results *)

\* Result<Option<String>, AppError> of lookup, Result<(), AppError> of store and
\* clear, Result<usize, AppError> of cleanup_expired, in one record shape
Some(s)    == [kind |-> "some", val |-> s,    count |-> 0, err |-> ""]
None       == [kind |-> "none", val |-> <<>>, count |-> 0, err |-> ""]
Unit       == [kind |-> "unit", val |-> <<>>, count |-> 0, err |-> ""]
Count(n)   == [kind |-> "count", val |-> <<>>, count |-> n, err |-> ""]
CacheError(msg) == [kind |-> "err", val |-> <<>>, count |-> 0, err |-> msg]

----------------------------------------------------------------------------
(* CacheManager, as functions of the store, the clock and the injected *)
(* storage failure; each yields the result and the store afterwards    *)

\* lookup up to and including is_expired: which arm of the match is taken
lookup_read(d, key, t, getFails) ==
    IF getFails THEN [arm |-> "io", entry |-> NoEntry, err |-> "Cache lookup failed"]
    ELSE IF key \notin DOMAIN d THEN [arm |-> "absent", entry |-> NoEntry, err |-> ""]
    ELSE LET fb == from_bytes(d[key])
         IN  IF ~fb.ok THEN [arm |-> "decode", entry |-> NoEntry, err |-> fb.err]
             ELSE IF is_expired(fb.entry, t) THEN [arm |-> "expired", entry |-> fb.entry, err |-> ""]
             ELSE [arm |-> "hit", entry |-> fb.entry, err |-> ""]

\* mutant: bytes that do not deserialize are reported as a miss
lookup_result_failing_open(r) ==
    CASE r.arm = "hit"     -> Some(r.entry.response)
      [] r.arm = "absent"  -> None
      [] r.arm = "expired" -> None
      [] r.arm = "decode"  -> None
      [] OTHER             -> CacheError(r.err)

\* the value lookup returns on each arm
lookup_result(r) ==
    CASE r.arm = "hit"     -> Some(r.entry.response)
      [] r.arm = "absent"  -> None
      [] r.arm = "expired" -> None
      [] OTHER             -> CacheError(r.err)

\* mutant: lookup without the config gate
lookup_ungated(d, en, text, model, tmpl, t, fault) ==
    LET key == generate_key(text, model, tmpl)
        r   == lookup_read(d, key, t, fault = "get")
    IN  [result |-> lookup_result(r),
         db     |-> IF r.arm = "expired" /\ fault # "remove" THEN db_remove(d, key) ELSE d,
         arm    |-> r.arm,
         io     |-> IF r.arm = "io" THEN "get"
                    ELSE IF r.arm = "expired" /\ fault = "remove" THEN "remove"
                    ELSE "none"]

\* mutant: a lookup that finds its entry expired removes every expired entry
lookup_sweeping(d, en, text, model, tmpl, t, fault) ==
    IF ~en THEN [result |-> None, db |-> d, arm |-> "disabled", io |-> "none"]
    ELSE LET key  == generate_key(text, model, tmpl)
             r    == lookup_read(d, key, t, fault = "get")
             gone == {k \in DOMAIN d : /\ from_bytes(d[k]).ok
                                       /\ is_expired(from_bytes(d[k]).entry, t)}
         IN  [result |-> lookup_result(r),
              db     |-> IF r.arm = "expired" /\ fault # "remove"
                         THEN [k \in DOMAIN d \ gone |-> d[k]] ELSE d,
              arm    |-> r.arm,
              io     |-> IF r.arm = "io" THEN "get"
                         ELSE IF r.arm = "expired" /\ fault = "remove" THEN "remove"
                         ELSE "none"]

\* the whole of lookup; fault is NoFault, "get" or "remove"
lookup(d, en, text, model, tmpl, t, fault) ==
    IF ~en THEN [result |-> None, db |-> d, arm |-> "disabled", io |-> "none"]
    ELSE LET key == generate_key(text, model, tmpl)
             r   == lookup_read(d, key, t, fault = "get")
         IN  [result |-> lookup_result(r),
              db     |-> IF r.arm = "expired" /\ fault # "remove" THEN db_remove(d, key) ELSE d,
              arm    |-> r.arm,
              io     |-> IF r.arm = "io" THEN "get"
                         ELSE IF r.arm = "expired" /\ fault = "remove" THEN "remove"
                         ELSE "none"]

\* mutant: an entry already under the key is kept
store_if_absent(d, en, ttl, text, response, model, tmpl, t, insertFails) ==
    IF ~en THEN [result |-> Unit, db |-> d, wrote |-> FALSE]
    ELSE IF insertFails
    THEN [result |-> CacheError("Failed to store in cache"), db |-> d, wrote |-> FALSE]
    ELSE IF generate_key(text, model, tmpl) \in DOMAIN d
    THEN [result |-> Unit, db |-> d, wrote |-> FALSE]
    ELSE [result |-> Unit,
          db     |-> db_insert(d, generate_key(text, model, tmpl),
                               to_bytes(CacheEntry_new(response, ttl, t))),
          wrote  |-> TRUE]

\* the whole of store
store(d, en, ttl, text, response, model, tmpl, t, insertFails) ==
    IF ~en THEN [result |-> Unit, db |-> d, wrote |-> FALSE]
    ELSE IF insertFails
    THEN [result |-> CacheError("Failed to store in cache"), db |-> d, wrote |-> FALSE]
    ELSE [result |-> Unit,
          db     |-> db_insert(d, generate_key(text, model, tmpl),
                               to_bytes(CacheEntry_new(response, ttl, t))),
          wrote  |-> TRUE]

\* mutant: the sweep takes an entry to be expired at its expires_at already
cleanup_removed_at_boundary(d, t, ioFail) ==
    {k \in DOMAIN d \ ioFail : from_bytes(d[k]).ok /\ from_bytes(d[k]).entry.expires_at <= t}

\* the keys cleanup_expired removes: readable, expired, and neither the
\* iteration nor the remove of that key failed
cleanup_removed(d, t, ioFail) ==
    {k \in DOMAIN d \ ioFail : from_bytes(d[k]).ok /\ from_bytes(d[k]).entry.expires_at < t}

cleanup_expired(d, en, t, ioFail) ==
    IF ~en THEN [result |-> Count(0), db |-> d]
    ELSE LET gone == cleanup_removed(d, t, ioFail)
         IN  [result |-> Count(Cardinality(gone)),
              db     |-> [k \in DOMAIN d \ gone |-> d[k]]]

clear(d, clearFails) ==
    IF clearFails THEN [result |-> CacheError("Failed to clear cache"), db |-> d]
    ELSE [result |-> Unit, db |-> EmptyDb]

----------------------------------------------------------------------------
(* Inputs *)

Texts     == {<<"a">>, <<"b">>}
Models    == {<<"m">>, <<"n">>}
Templates == {0, 5}
\* provider and caller supplied response texts, without and with the delimiter
Responses == {<<"r">>, <<"r", Pipe, "s">>}
TtlDays   == {0, 1}

\* the triples the caller uses: a base triple and the triples that differ
\* from it in at most one of text, model and template identity
BaseTriple == <<(<<"a">>), (<<"m">>), 0>>
Differs(x, y) == Cardinality({i \in 1..3 : x[i] # y[i]})
Triples == {x \in Texts \X Models \X Templates : Differs(x, BaseTriple) <= 1}

\* injected storage failures: what a call is made to fail on
NoFault == "none"

\* the instants the clock takes: the first two seconds of each day
Instants == {(d * DaySecs) + s : d \in 0..MaxDay, s \in 0..1}

----------------------------------------------------------------------------
(* The history of what store serialized, kept beside the bytes *)

NoWritten == [k \in {} |-> NoEntry]

\* written after a call that left the store as d2 and, when wrote, put entry under key
written_after(w, d2, wrote, key, entry) ==
    [k \in DOMAIN d2 |-> IF wrote /\ k = key THEN entry ELSE w[k]]

----------------------------------------------------------------------------
(* Spec: one caller, one CacheManager call per step *)

NoCall == [op |-> "none", text |-> <<>>, model |-> <<>>, tmpl |-> 0, response |-> <<>>,
           result |-> Unit, arm |-> "", io |-> "none", at |-> 0, pre |-> NoWritten]

IdleTasks == <<>>
NoCodec   == [stage |-> "none", entry |-> NoEntry, bytes |-> <<>>, back |-> from_bytes(<<>>)]
NoArgs    == [stage |-> "none"]

Init ==
    /\ db = EmptyDb
    /\ written = NoWritten
    /\ now = 0
    /\ enabled \in BOOLEAN
    /\ ttl_days \in TtlDays
    /\ last = NoCall
    /\ nops = 0
    /\ tasks = IdleTasks
    /\ nreqs = 0
    /\ codec = NoCodec
    /\ call = NoArgs

\* time passes between two calls
Tick ==
    /\ \E t \in Instants : t > now /\ now' = t
    /\ UNCHANGED <<db, written, enabled, ttl_days, last, nops, tasks, nreqs, codec, call>>

Store(text, response, model, tmpl, insertFails) ==
    /\ nops < MaxOps
    /\ LET r == store(db, enabled, ttl_days, text, response, model, tmpl, now, insertFails)
       IN  /\ db' = r.db
           /\ written' = written_after(written, r.db, r.wrote, generate_key(text, model, tmpl),
                                       CacheEntry_new(response, ttl_days, now))
           /\ last' = [op |-> "store", text |-> text, model |-> model, tmpl |-> tmpl,
                       response |-> response, result |-> r.result, arm |-> "",
                       io |-> IF r.result.kind = "err" THEN "insert" ELSE "none",
                       at |-> now, pre |-> written]
    /\ nops' = nops + 1
    /\ UNCHANGED <<now, enabled, ttl_days, tasks, nreqs, codec, call>>

Lookup(text, model, tmpl, fault) ==
    /\ nops < MaxOps
    /\ LET r == lookup(db, enabled, text, model, tmpl, now, fault)
       IN  /\ r.io = fault
           /\ db' = r.db
           /\ written' = written_after(written, r.db, FALSE, <<>>, NoEntry)
           /\ last' = [op |-> "lookup", text |-> text, model |-> model, tmpl |-> tmpl,
                       response |-> <<>>, result |-> r.result, arm |-> r.arm,
                       io |-> r.io, at |-> now, pre |-> written]
    /\ nops' = nops + 1
    /\ UNCHANGED <<now, enabled, ttl_days, tasks, nreqs, codec, call>>

CleanupExpired(ioFail) ==
    /\ nops < MaxOps
    /\ LET r == cleanup_expired(db, enabled, now, ioFail)
       IN  /\ db' = r.db
           /\ written' = written_after(written, r.db, FALSE, <<>>, NoEntry)
           /\ last' = [op |-> "cleanup_expired", text |-> <<>>, model |-> <<>>, tmpl |-> 0,
                       response |-> <<>>, result |-> r.result, arm |-> "",
                       io |-> IF enabled /\ ioFail \cap DOMAIN db # {} THEN "sweep" ELSE "none",
                       at |-> now, pre |-> written]
    /\ nops' = nops + 1
    /\ UNCHANGED <<now, enabled, ttl_days, tasks, nreqs, codec, call>>

\* mutant: clear is gated by the enabled flag like the other calls
Clear_gated(clearFails) ==
    /\ nops < MaxOps
    /\ LET r == IF enabled THEN clear(db, clearFails) ELSE [result |-> Unit, db |-> db]
       IN  /\ db' = r.db
           /\ written' = written_after(written, r.db, FALSE, <<>>, NoEntry)
           /\ last' = [op |-> "clear", text |-> <<>>, model |-> <<>>, tmpl |-> 0,
                       response |-> <<>>, result |-> r.result, arm |-> "",
                       io |-> IF r.result.kind = "err" THEN "clear" ELSE "none",
                       at |-> now, pre |-> written]
    /\ nops' = nops + 1
    /\ UNCHANGED <<now, enabled, ttl_days, tasks, nreqs, codec, call>>

Clear(clearFails) ==
    /\ nops < MaxOps
    /\ LET r == clear(db, clearFails)
       IN  /\ db' = r.db
           /\ written' = written_after(written, r.db, FALSE, <<>>, NoEntry)
           /\ last' = [op |-> "clear", text |-> <<>>, model |-> <<>>, tmpl |-> 0,
                       response |-> <<>>, result |-> r.result, arm |-> "",
                       io |-> IF clearFails THEN "clear" ELSE "none",
                       at |-> now, pre |-> written]
    /\ nops' = nops + 1
    /\ UNCHANGED <<now, enabled, ttl_days, tasks, nreqs, codec, call>>

\* the storage layer is healthy: every sled call succeeds
Next ==
    \/ Tick
    \/ \E x \in Triples, response \in Responses : Store(x[1], response, x[2], x[3], FALSE)
    \/ \E x \in Triples : Lookup(x[1], x[2], x[3], NoFault)
    \/ CleanupExpired({})
    \/ Clear(FALSE)

Spec == Init /\ [][Next]_vars

----------------------------------------------------------------------------
(* SpecPipe: process_text_handler, one task per request, over one store *)

\* AppConfig of the running service
model_name      == <<"m">>
NoTemplate      == <<>>
prompt_template == NoTemplate

\* the handler's template identity: the hash of the template, 0 without one
prompt_template_hash(template) ==
    IF template = NoTemplate THEN 0 ELSE DefaultHash(template)

\* Result<String, AppError> of query_llm and of the handler, in the record shape
OkText(s)        == [kind |-> "ok", val |-> s, count |-> 0, err |-> ""]
LlmApiError(msg) == [kind |-> "llm_err", val |-> <<>>, count |-> 0, err |-> msg]
Pending          == [kind |-> "pending", val |-> <<>>, count |-> 0, err |-> ""]

\* the task running query_llm panicked
Panicked == [kind |-> "panic", val |-> <<>>, count |-> 0, err |-> ""]

\* what query_llm may come back with: a text, an error, or no return at all
\* when the cut of a long text panics
ProviderOutcomes ==
    {OkText(r) : r \in Responses} \cup {LlmApiError("OpenAI API request failed")}
      \cup {Panicked}

\* the handler's first branch: consult the cache only when it is enabled
handler_start(en) == IF en THEN "lookup" ELSE "llm"

\* mutant: a lookup error is returned to the caller (lookup(..)?)
handler_after_lookup_propagating(r) ==
    IF r.kind = "some" THEN [pc |-> "done", result |-> OkText(r.val)]
    ELSE IF r.kind = "err" THEN [pc |-> "done", result |-> r]
    ELSE [pc |-> "llm", result |-> Pending]

\* the handler's match on what lookup returned: a hit is the response,
\* a miss and an error both go on to the provider
handler_after_lookup(r) ==
    IF r.kind = "some" THEN [pc |-> "done", result |-> OkText(r.val)]
    ELSE [pc |-> "llm", result |-> Pending]

\* mutant: a provider error is answered with an empty response
handler_after_llm_swallowing(outcome, en) ==
    IF outcome.kind # "ok" THEN [pc |-> "done", result |-> OkText(<<>>)]
    ELSE IF en THEN [pc |-> "store", result |-> Pending]
    ELSE [pc |-> "done", result |-> outcome]

\* mutant: the store is attempted after a provider error too
handler_after_llm_storing_errors(outcome, en) ==
    IF en THEN [pc |-> "store", result |-> Pending]
    ELSE [pc |-> "done", result |-> outcome]

\* query_llm(..).await? : an error is the handler's result, a response is
\* stored when the cache is enabled and returned
handler_after_llm(outcome, en) ==
    IF outcome.kind # "ok" THEN [pc |-> "done", result |-> outcome]
    ELSE IF en THEN [pc |-> "store", result |-> Pending]
    ELSE [pc |-> "done", result |-> outcome]

\* the length above which the handler logs a response as unusually long
unusually_long == 1000

\* mutant: a response above the logged length is refused
handler_after_store_refusing_long(llm_response, stored) ==
    IF Len(llm_response) > unusually_long THEN LlmApiError("Response is unusually long")
    ELSE OkText(llm_response)

\* after store, whatever it returned, the handler answers with the response
handler_after_store(llm_response, stored) == OkText(llm_response)

\* the concurrently running handler tasks
TaskIds == {1, 2}

IdleTask ==
    [pc |-> "idle", text |-> <<>>, look |-> "", calls |-> 0, provider |-> Pending,
     stored |-> "no", result |-> Pending, prior |-> {}]

\* the responses of the requests for text that have completed and left their
\* response in the cache (history, taken when a request arrives)
CompletedFor(text) ==
    {tasks[u].result : u \in {v \in TaskIds : /\ tasks[v].pc = "done"
                                              /\ tasks[v].text = text
                                              /\ tasks[v].result.kind = "ok"
                                              /\ \/ tasks[v].stored = "ok"
                                                 \/ tasks[v].look = "hit"}}

NewTask(text) ==
    [pc       |-> handler_start(enabled),
     text     |-> text,
     look     |-> IF enabled THEN "" ELSE "skipped",
     calls    |-> 0,
     provider |-> Pending,
     stored   |-> "no",
     result   |-> Pending,
     prior    |-> CompletedFor(text)]

TaskKey(i) == generate_key(tasks[i].text, model_name, prompt_template_hash(prompt_template))

\* the store an earlier run of the service may have left on disk
PriorStores ==
    {EmptyDb}
    \cup {db_insert(EmptyDb, generate_key(<<"a">>, model_name, 0),
                    to_bytes(CacheEntry_new(r, 1, 0))) : r \in {<<"r">>}}

PriorWritten(d) ==
    [k \in DOMAIN d |-> CacheEntry_new(<<"r">>, 1, 0)]

\* mutant: new hands the store out without the sweep
CacheManager_new_without_sweep(prior, en, t) == prior

\* CacheManager::new: open the store and, when enabled, sweep it once
CacheManager_new(prior, en, t) == cleanup_expired(prior, en, t, {}).db

InitPipe ==
    /\ now = 0
    /\ enabled \in BOOLEAN
    /\ ttl_days \in TtlDays
    /\ \E prior \in PriorStores :
          /\ db = CacheManager_new(prior, enabled, now)
          /\ written = PriorWritten(db)
    /\ last = NoCall
    /\ nops = 0
    /\ tasks = [t \in TaskIds |-> IdleTask]
    /\ nreqs = 0
    /\ codec = NoCodec
    /\ call = NoArgs

\* a request arrives and its handler starts on the first free task
Accept(text) ==
    /\ nreqs < MaxReqs
    /\ \E i \in TaskIds :
          /\ tasks[i].pc \in {"idle", "done"}
          /\ \A j \in TaskIds : j < i => tasks[j].pc \notin {"idle", "done"}
          /\ tasks' = [tasks EXCEPT ![i] = NewTask(text)]
    /\ nreqs' = nreqs + 1
    /\ UNCHANGED <<db, written, now, enabled, ttl_days, last, nops, codec, call>>

\* lookup: db.get, from_bytes and is_expired
LookupRead(i, getFails) ==
    /\ tasks[i].pc = "lookup"
    /\ LET r == lookup_read(db, TaskKey(i), now, getFails)
           h == handler_after_lookup(lookup_result(r))
       IN  tasks' = [tasks EXCEPT ![i].look = r.arm,
                                  ![i].pc = IF r.arm = "expired" THEN "remove" ELSE h.pc,
                                  ![i].result = IF r.arm = "expired" THEN Pending ELSE h.result]
    /\ UNCHANGED <<db, written, now, enabled, ttl_days, last, nops, nreqs, codec, call>>

\* lookup, expired arm: db.remove, its result discarded, then Ok(None)
LookupRemove(i, removeFails) ==
    /\ tasks[i].pc = "remove"
    /\ db' = IF removeFails THEN db ELSE db_remove(db, TaskKey(i))
    /\ written' = written_after(written, db', FALSE, <<>>, NoEntry)
    /\ LET h == handler_after_lookup(None)
       IN  tasks' = [tasks EXCEPT ![i].pc = h.pc, ![i].result = h.result]
    /\ UNCHANGED <<now, enabled, ttl_days, last, nops, nreqs, codec, call>>

\* query_llm returns, or panics and takes the handler's task with it
Provider(i, outcome) ==
    /\ tasks[i].pc = "llm"
    /\ LET h == IF outcome = Panicked THEN [pc |-> "panicked", result |-> Panicked]
                ELSE handler_after_llm(outcome, enabled)
       IN  tasks' = [tasks EXCEPT ![i].calls = @ + 1,
                                  ![i].provider = outcome,
                                  ![i].pc = h.pc,
                                  ![i].result = h.result]
    /\ UNCHANGED <<db, written, now, enabled, ttl_days, last, nops, nreqs, codec, call>>

\* cache_manager.store of the provider's response, then the handler returns
StoreStep(i, insertFails) ==
    /\ tasks[i].pc = "store"
    /\ LET r == store(db, enabled, ttl_days, tasks[i].text, tasks[i].provider.val,
                      model_name, prompt_template_hash(prompt_template), now, insertFails)
       IN  /\ db' = r.db
           /\ written' = written_after(written, r.db, r.wrote, TaskKey(i),
                                       CacheEntry_new(tasks[i].provider.val, ttl_days, now))
           /\ tasks' = [tasks EXCEPT ![i].pc = "done",
                                      ![i].stored = IF r.result.kind = "err" THEN "err" ELSE "ok",
                                      ![i].result = handler_after_store(tasks[i].provider.val,
                                                                        r.result)]
    /\ UNCHANGED <<now, enabled, ttl_days, last, nops, nreqs, codec, call>>

NextPipe ==
    \/ Tick
    \/ \E text \in Texts : Accept(text)
    \/ \E i \in TaskIds, getFails \in BOOLEAN : LookupRead(i, getFails)
    \/ \E i \in TaskIds, removeFails \in BOOLEAN : LookupRemove(i, removeFails)
    \/ \E i \in TaskIds, outcome \in ProviderOutcomes : Provider(i, outcome)
    \/ \E i \in TaskIds, insertFails \in BOOLEAN : StoreStep(i, insertFails)

SpecPipe == InitPipe /\ [][NextPipe]_vars

----------------------------------------------------------------------------
(* SpecCodec: to_bytes, then from_bytes, on every entry of a bounded set *)

CodecChars == {"r", Pipe, "7"}

RECURSIVE StringsUpTo(_, _)
StringsUpTo(chars, n) ==
    IF n = 0 THEN {<<>>}
    ELSE LET shorter == StringsUpTo(chars, n - 1)
         IN  shorter \cup {Append(w, c) : w \in shorter, c \in chars}

CodecResponses == StringsUpTo(CodecChars, MaxRespLen)

CodecTimes == {0, 7, 10, DaySecs}

CodecEntries ==
    {[response |-> r, created_at |-> c, expires_at |-> e] :
        r \in CodecResponses, c \in CodecTimes, e \in CodecTimes}

InitCodec ==
    /\ db = EmptyDb
    /\ written = NoWritten
    /\ now = 0
    /\ enabled = TRUE
    /\ ttl_days = 0
    /\ last = NoCall
    /\ nops = 0
    /\ tasks = IdleTasks
    /\ nreqs = 0
    /\ call = NoArgs
    /\ \E e \in CodecEntries :
          codec = [stage |-> "entry", entry |-> e, bytes |-> <<>>, back |-> from_bytes(<<>>)]

Encode ==
    /\ codec.stage = "entry"
    /\ codec' = [codec EXCEPT !.stage = "bytes", !.bytes = to_bytes(codec.entry)]
    /\ UNCHANGED <<db, written, now, enabled, ttl_days, last, nops, tasks, nreqs, call>>

Decode ==
    /\ codec.stage = "bytes"
    /\ codec' = [codec EXCEPT !.stage = "back", !.back = from_bytes(codec.bytes)]
    /\ UNCHANGED <<db, written, now, enabled, ttl_days, last, nops, tasks, nreqs, call>>

NextCodec == Encode \/ Decode

SpecCodec == InitCodec /\ [][NextCodec]_vars

----------------------------------------------------------------------------
(* Claims about the CacheManager API (Spec) *)

LastKey == generate_key(last.text, last.model, last.tmpl)

\* the last call was a lookup of a triple whose entry, as store built it, was
\* in the store when the lookup began
LookupFound ==
    /\ enabled
    /\ last.op = "lookup"
    /\ LastKey \in DOMAIN last.pre

FoundEntry == last.pre[LastKey]

\* a step in which a lookup of the triple just stored follows the successful
\* store, with no call between the two
StoreThenLookup ==
    /\ enabled
    /\ last.op = "store" /\ last.result = Unit
    /\ nops' = nops + 1
    /\ last'.op = "lookup"
    /\ last'.text = last.text /\ last'.model = last.model /\ last'.tmpl = last.tmpl

\* C1: with caching enabled, store(text, response, model, template) followed
\* by lookup(text, model, template), with no call in between and before the
\* entry expires, returns Some(response) with exactly the stored response,
\* for every response, also one that contains the delimiter.
C1_StoreLookupRoundTrip ==
    [][(StoreThenLookup /\ now <= last.at + (ttl_days * DaySecs))
          => last'.result = Some(last.response)]_vars

\* C3: lookup never returns the response of an entry whose expires_at is less
\* than the current time: the lookup that finds such an entry returns None and
\* the entry is absent afterwards; an entry whose expires_at is greater than
\* or equal to the current time is returned.
C3_ExpiryAtLookup ==
    LookupFound =>
        IF FoundEntry.expires_at < last.at
        THEN last.result = None /\ LastKey \notin DOMAIN db
        ELSE last.result = Some(FoundEntry.response)

\* C4 as stated: with ttl_days = 0, right after store and at the clock value
\* of the store, the stored entry's is_expired is true, and the lookup of the
\* same triple that follows returns None and removes the entry.
C4_ZeroTtlExpiredAtOnce ==
    [][(StoreThenLookup /\ ttl_days = 0 /\ now = last.at)
          => /\ is_expired(CacheEntry_new(last.response, ttl_days, last.at), now)
             /\ last'.result = None
             /\ generate_key(last.text, last.model, last.tmpl) \notin DOMAIN db']_vars

\* C4 as amended: with ttl_days = 0 the entry is not expired at the clock value
\* of the store (expires_at = created_at, and expiry needs expires_at < now): a
\* lookup of the triple at that clock value neither returns None nor removes
\* the entry; is_expired is true at every later clock value.
C4_ZeroTtlExpiresAfterATick ==
    (LookupFound /\ ttl_days = 0) =>
        /\ FoundEntry.expires_at = FoundEntry.created_at
        /\ last.at = FoundEntry.created_at =>
              /\ ~is_expired(FoundEntry, last.at)
              /\ last.result # None
              /\ LastKey \in DOMAIN db /\ db[LastKey] = to_bytes(FoundEntry)
        /\ last.at > FoundEntry.created_at => is_expired(FoundEntry, last.at)

\* C4 witness: a lookup at the clock value of a ttl_days = 0 store that
\* returned the stored response
C4_Witness ==
    /\ LookupFound /\ ttl_days = 0
    /\ last.at = FoundEntry.created_at
    /\ last.result = Some(FoundEntry.response)

\* C9: when the store holds an entry for one triple only, a lookup of a
\* triple that differs from it in exactly one of text, model and template
\* identity returns None.
C9_KeySensitivity ==
    (enabled /\ last.op = "lookup") =>
        \A x \in Texts \X Models \X Templates :
            (/\ DOMAIN last.pre = {generate_key(x[1], x[2], x[3])}
             /\ Differs(<<last.text, last.model, last.tmpl>>, x) = 1)
            => last.result = None

\* C9 witness: the entry of the base triple is the only one, and a triple one
\* coordinate away from it was looked up and missed
C9_Witness ==
    /\ enabled /\ last.op = "lookup"
    /\ DOMAIN last.pre = {generate_key(BaseTriple[1], BaseTriple[2], BaseTriple[3])}
    /\ Differs(<<last.text, last.model, last.tmpl>>, BaseTriple) = 1
    /\ last.model # BaseTriple[2]
    /\ last.result = None

----------------------------------------------------------------------------
(* Claims about the request pipeline (SpecPipe) *)

Done(i) == tasks[i].pc = "done"

\* lookup returned an error to the handler of task i
LookupFailed(i) == tasks[i].look \in {"io", "decode"}

\* C2: with caching enabled and a provider that succeeds, once a request for
\* a triple has completed, every later request for the triple made before the
\* entry expires is answered from the cache, without a provider call, with the
\* response of the earlier request.  (Stated for ttl_days = 1 within the first
\* day, where nothing expires, for lookups whose db.get did not fail and
\* provider calls that did not fail.)
C2_LaterRequestsServedFromCache ==
    \A j \in TaskIds :
        (/\ enabled /\ ttl_days = 1 /\ now < DaySecs
         /\ Done(j)
         /\ tasks[j].prior # {}
         /\ tasks[j].look # "io"
         /\ tasks[j].provider.kind # "llm_err")
        => (tasks[j].calls = 0 /\ tasks[j].result \in tasks[j].prior)

\* C5: no cache failure makes a request fail: after a lookup error the
\* request goes on as on a miss (the provider is called once and its outcome
\* is the request's), after a store error the request still returns the
\* provider's response, and a request fails only with the provider's error.
C5_CacheFailuresAbsorbed ==
    \A i \in TaskIds :
        /\ LookupFailed(i) => tasks[i].pc \in {"llm", "store", "done", "panicked"}
        /\ (LookupFailed(i) /\ tasks[i].pc \in {"store", "done", "panicked"}) =>
              /\ tasks[i].calls = 1
              /\ tasks[i].provider.kind = "ok" => tasks[i].pc = "store" \/ tasks[i].stored # "no"
        /\ (LookupFailed(i) /\ Done(i)) => tasks[i].result = tasks[i].provider
        /\ (Done(i) /\ tasks[i].stored = "err") => tasks[i].result = OkText(tasks[i].provider.val)
        /\ (Done(i) /\ tasks[i].result.kind # "ok") =>
              (tasks[i].provider.kind = "llm_err" /\ tasks[i].result = tasks[i].provider)

\* C5 witness: a request whose lookup failed and whose store failed returned
\* the provider's response
C5_Witness ==
    \E i \in TaskIds :
        /\ Done(i) /\ LookupFailed(i) /\ tasks[i].stored = "err"
        /\ tasks[i].result.kind = "ok"

\* C6: on a miss, and with caching disabled, a provider error is the
\* request's result: the request returns that error, the provider is called
\* once and not again, nothing is stored and no response is put in its place.
C6_ProviderErrorIsTerminal ==
    \A i \in TaskIds :
        /\ tasks[i].calls <= 1
        /\ tasks[i].provider.kind = "llm_err" =>
              /\ Done(i)
              /\ tasks[i].result = tasks[i].provider
              /\ tasks[i].calls = 1
              /\ tasks[i].stored = "no"

\* C6 witness: a request failed with the provider's error after a miss, and
\* another with caching disabled
C6_Witness ==
    \E i \in TaskIds :
        /\ Done(i) /\ tasks[i].provider.kind = "llm_err"
        /\ tasks[i].look \in {"absent", "skipped"}
        /\ tasks[i].result.kind = "llm_err"

\* task i is the one whose step writes bytes under key k: it is at its store,
\* after a lookup that did not hit and one successful provider call, and the
\* bytes are those of a whole new entry for the provider's response
WritesEntry(i, k) ==
    /\ tasks[i].pc = "store" /\ tasks'[i].pc = "done"
    /\ tasks[i].look # "hit"
    /\ tasks[i].calls = 1 /\ tasks[i].provider.kind = "ok"
    /\ k = TaskKey(i)
    /\ db'[k] = to_bytes(CacheEntry_new(tasks[i].provider.val, ttl_days, now))

\* task i is the one whose step deletes key k: its lookup found an expired
\* entry under k and is at its remove
RemovesExpired(i, k) ==
    /\ tasks[i].pc = "remove" /\ tasks[i].look = "expired"
    /\ k = TaskKey(i)

C8_DisabledCacheBypassed ==
    ~enabled =>
        /\ \A x \in Triples, r \in Responses, insertFails \in BOOLEAN :
              LET s == store(db, enabled, ttl_days, x[1], r, x[2], x[3], now, insertFails)
              IN  s.db = db /\ s.result = Unit
        /\ \A x \in Triples, fault \in {NoFault, "get", "remove"} :
              LET l == lookup(db, enabled, x[1], x[2], x[3], now, fault)
              IN  l.result = None /\ l.db = db
        /\ \A i \in TaskIds :
              /\ tasks[i].pc \in {"idle", "llm", "done", "panicked"}
              /\ tasks[i].pc \in {"done", "panicked"} =>
                    (tasks[i].calls = 1 /\ tasks[i].stored = "no")

\* C8 witness: caching is disabled, the store holds an entry for text "a",
\* and two requests for "a" have each called the provider
C8_Witness ==
    /\ ~enabled
    /\ generate_key(<<"a">>, model_name, 0) \in DOMAIN db
    /\ \A i \in TaskIds : Done(i) /\ tasks[i].text = <<"a">> /\ tasks[i].calls = 1

----------------------------------------------------------------------------
(* Claims about the codec (SpecCodec) *)

\* C10: the entry codec round-trips: for every CacheEntry e, also one whose
\* response contains '|', from_bytes(to_bytes(e)) succeeds and yields the same
\* response, created_at and expires_at.
C10_CodecRoundTrip ==
    codec.stage = "back" => (codec.back.ok /\ codec.back.entry = codec.entry)

----------------------------------------------------------------------------
(* SpecSweep: a store found on disk is opened with CacheManager::new and   *)
(* then driven call by call, with storage failures injected into the calls *)

\* SpecSweep: CacheManager calls per behaviour after the open
MaxSweepOps == 2

\* the triples the caller of SpecSweep uses, and the keys they are filed under
SweepTriples == {<<(<<"a">>), (<<"m">>), 0>>, <<(<<"b">>), (<<"m">>), 0>>}
SweepKeys    == {generate_key(x[1], x[2], x[3]) : x \in SweepTriples}

\* bytes an earlier run, or a damaged disk, may have left under a key: an
\* entry that expired at second 0, one that lives for a day, an entry whose
\* response holds the delimiter, bytes that are not UTF-8, and two fields only
PriorBytes ==
    {to_bytes([response |-> <<"r">>, created_at |-> 0, expires_at |-> 0]),
     to_bytes(CacheEntry_new(<<"r">>, 1, 0)),
     to_bytes([response |-> <<"r", Pipe, "s">>, created_at |-> 0, expires_at |-> 0]),
     <<BadByte>>,
     <<"r", Pipe, "0">>}

\* every store over the keys of SweepKeys with bytes of PriorBytes
PriorSweepStores ==
    UNION {[ks -> PriorBytes] : ks \in SUBSET SweepKeys}

\* what the bytes on disk decode to, NoEntry where they do not decode
DecodedOf(d) ==
    [k \in DOMAIN d |-> IF from_bytes(d[k]).ok THEN from_bytes(d[k]).entry ELSE NoEntry]

InitSweep ==
    /\ db \in PriorSweepStores
    /\ written = DecodedOf(db)
    /\ now = 0
    /\ enabled \in BOOLEAN
    /\ ttl_days \in TtlDays
    /\ last = NoCall
    /\ nops = 0
    /\ tasks = IdleTasks
    /\ nreqs = 0
    /\ codec = NoCodec
    /\ call = NoArgs

\* CacheManager::new on the store found on disk
Open ==
    /\ last.op = "none"
    /\ db' = CacheManager_new(db, enabled, now)
    /\ written' = written_after(written, db', FALSE, <<>>, NoEntry)
    /\ last' = [op |-> "new", text |-> <<>>, model |-> <<>>, tmpl |-> 0,
                response |-> <<>>, result |-> Unit, arm |-> "", io |-> "none",
                at |-> now, pre |-> written]
    /\ UNCHANGED <<now, enabled, ttl_days, nops, tasks, nreqs, codec, call>>

\* the manager is handed out by new; until then only time passes
Opened == last.op # "none"

NextSweep ==
    \/ Tick
    \/ Open
    \/ /\ Opened /\ nops < MaxSweepOps
       /\ \E x \in SweepTriples, response \in Responses, insertFails \in BOOLEAN :
             Store(x[1], response, x[2], x[3], insertFails)
    \/ /\ Opened /\ nops < MaxSweepOps
       /\ \E x \in SweepTriples, fault \in {NoFault, "get", "remove"} :
             Lookup(x[1], x[2], x[3], fault)
    \/ /\ Opened /\ nops < MaxSweepOps
       /\ \E ioFail \in SUBSET SweepKeys : CleanupExpired(ioFail)
    \/ /\ Opened /\ nops < MaxSweepOps
       /\ \E clearFails \in BOOLEAN : Clear(clearFails)

SpecSweep == InitSweep /\ [][NextSweep]_vars

----------------------------------------------------------------------------
(* Claims about the store opened from disk (SpecSweep) *)

\* the step is a call of op on the opened manager
CallStep(op) == nops' = nops + 1 /\ last'.op = op

\* the key of the call the step makes
CallKey == generate_key(last'.text, last'.model, last'.tmpl)

\* the step is a lookup, with caching enabled, of a key whose stored bytes do
\* not deserialize
UndecodableLookup ==
    /\ CallStep("lookup") /\ enabled
    /\ CallKey \in DOMAIN db
    /\ ~from_bytes(db[CallKey]).ok

----------------------------------------------------------------------------
(* SpecBytes: from_bytes on every byte sequence of a bounded set *)

\* SpecBytes: longest byte sequence handed to from_bytes
MaxBytesLen == 5

\* a letter, the delimiter, a digit, the two signs and a byte that is not UTF-8
ByteChars == {"r", Pipe, "7", "+", "-", BadByte}

ByteStrings == StringsUpTo(ByteChars, MaxBytesLen)

InitBytes ==
    /\ db = EmptyDb
    /\ written = NoWritten
    /\ now = 0
    /\ enabled = TRUE
    /\ ttl_days = 0
    /\ last = NoCall
    /\ nops = 0
    /\ tasks = IdleTasks
    /\ nreqs = 0
    /\ call = NoArgs
    /\ \E b \in ByteStrings :
          codec = [stage |-> "bytes", entry |-> NoEntry, bytes |-> b, back |-> from_bytes(<<>>)]

NextBytes == Decode

SpecBytes == InitBytes /\ [][NextBytes]_vars

----------------------------------------------------------------------------
(* Claims about from_bytes on arbitrary bytes (SpecBytes) *)

\* the '|'-separated parts of a byte sequence, all of them
Fields(s) == splitn(Len(s) + 1, Pipe, s)

\* a decimal numeral of an unsigned integer, as a u64 is written and parsed
IsUnsigned(s) ==
    LET body == IF s # <<>> /\ s[1] = "+" THEN Tail(s) ELSE s
    IN  body # <<>> /\ \A i \in 1..Len(body) : body[i] \in {Digits[j] : j \in 1..10}

FromBytesErrors ==
    {"Failed to deserialize cache entry", "Invalid cache entry format",
     "Invalid created_at timestamp", "Invalid expires_at timestamp"}

\* C12: from_bytes is total: for every byte sequence it returns either an
\* entry or one of its structured errors; and it returns an error whenever
\* the bytes are not valid UTF-8, have fewer than three '|'-separated parts,
\* or one of the two trailing parts is not an unsigned integer.
C12_FromBytesTotal ==
    codec.stage = "back" =>
        LET b == codec.bytes
            r == codec.back
            f == Fields(b)
        IN  /\ r.ok \in BOOLEAN
            /\ r.ok => /\ r.err = ""
                       /\ r.entry.created_at \in Nat /\ r.entry.expires_at \in Nat
                       /\ r.entry.response \in Seq(ByteChars \ {BadByte})
            /\ ~r.ok => (r.err \in FromBytesErrors /\ r.entry = NoEntry)
            /\ (\E i \in 1..Len(b) : b[i] = BadByte) => ~r.ok
            /\ Len(f) < 3 => ~r.ok
            /\ (Len(f) >= 3 /\ ~IsUnsigned(f[Len(f) - 1])) => ~r.ok
            /\ (Len(f) >= 3 /\ ~IsUnsigned(f[Len(f)])) => ~r.ok

\* C12 witness: bytes of three parts whose last part is not a number were
\* decoded to the error of the expires_at field
C12_Witness ==
    /\ codec.stage = "back" /\ codec.entry = NoEntry
    /\ Len(Fields(codec.bytes)) = 3
    /\ IsUnsigned(Fields(codec.bytes)[2]) /\ ~IsUnsigned(Fields(codec.bytes)[3])
    /\ codec.back = [ok |-> FALSE, err |-> "Invalid expires_at timestamp", entry |-> NoEntry]

----------------------------------------------------------------------------
(* Claims about the sweep, the open and clear (SpecSweep) *)

\* the keys of d whose bytes deserialize to an entry with expires_at < t
ReadableExpired(d, t) ==
    {k \in DOMAIN d : from_bytes(d[k]).ok /\ from_bytes(d[k]).entry.expires_at < t}

\* d2 is d without the keys of gone, every other key with its bytes as they were
Without(d, gone, d2) ==
    /\ DOMAIN d2 = DOMAIN d \ gone
    /\ \A k \in DOMAIN d2 : d2[k] = d[k]

\* C13: with caching enabled and no concurrent operation, cleanup_expired
\* deletes every readable entry whose expires_at is less than now, leaves every
\* readable entry with expires_at >= now and every unreadable entry as it is,
\* and returns the number of entries it deleted; with caching disabled it
\* deletes nothing and returns 0.  (For a sweep in which no storage call fails.)
C13_SweepDeletesTheExpired ==
    [][(CallStep("cleanup_expired") /\ last'.io = "none") =>
          IF enabled
          THEN /\ Without(db, ReadableExpired(db, now), db')
               /\ last'.result = Count(Cardinality(DOMAIN db \ DOMAIN db'))
          ELSE db' = db /\ last'.result = Count(0)]_vars

\* C13 witness: a sweep deleted one expired entry and left bytes that do not
\* deserialize under the other key
C13_Witness ==
    /\ enabled /\ last.op = "cleanup_expired" /\ last.io = "none"
    /\ last.result = Count(1)
    /\ \E k \in DOMAIN last.pre \ DOMAIN db : last.pre[k].expires_at < last.at
    /\ \E k \in DOMAIN db : ~from_bytes(db[k]).ok

\* C14: a storage I/O error during store, or during cleanup_expired (while
\* iterating or while removing an entry), is returned to the caller as an
\* error value; no such error is dropped.
C14_StorageErrorsSurfaced ==
    [][/\ (CallStep("store") /\ last'.io = "insert") => last'.result.kind = "err"
       /\ (CallStep("cleanup_expired") /\ last'.io = "sweep") => last'.result.kind = "err"]_vars

\* the step is CacheManager::new
OpenStep == last.op = "none" /\ last'.op = "new"

\* C15: opening the store with caching enabled performs one full expiry sweep
\* before the store is handed out: right after the open no readable entry with
\* expires_at less than the open time is left, and nothing else was removed;
\* opening with caching disabled removes nothing, so the entries of an
\* earlier run, expired or not, persist.
C15_OpenSweepsOnce ==
    [][/\ OpenStep =>
             IF enabled
             THEN /\ ReadableExpired(db', now) = {}
                  /\ Without(db, ReadableExpired(db, now), db')
             ELSE db' = db
       /\ (~Opened /\ ~OpenStep) => (db' = db /\ nops' = nops)]_vars

\* C15 witness: the open removed an expired entry of an earlier run and left
\* the other, unexpired, entry
C15_Witness ==
    /\ enabled /\ last.op = "new"
    /\ \E k \in DOMAIN last.pre \ DOMAIN db : last.pre[k].expires_at < last.at
    /\ \E k \in DOMAIN db : from_bytes(db[k]).ok /\ from_bytes(db[k]).entry.expires_at >= last.at

\* C16: clear removes every entry, whatever its expiry and whatever the
\* enabled flag; after a clear, lookup returns None for every triple until
\* the next store.  (For calls in which no storage call fails.)
C16_ClearRemovesEverything ==
    [][/\ (CallStep("clear") /\ last'.io = "none") =>
             /\ last'.result = Unit
             /\ db' = EmptyDb
             /\ \A x \in Texts \X Models \X Templates :
                   lookup(db', enabled, x[1], x[2], x[3], now, NoFault).result = None
       /\ (db = EmptyDb /\ last'.op # "store") => db' = EmptyDb
       /\ (db = EmptyDb /\ CallStep("lookup") /\ last'.io = "none") => last'.result = None]_vars

\* C16 witness: with caching disabled, clear emptied a store that held an
\* unexpired entry and an expired one
C16_Witness ==
    /\ ~enabled /\ last.op = "clear" /\ last.result = Unit
    /\ db = EmptyDb
    /\ \E k \in DOMAIN last.pre : last.pre[k] # NoEntry /\ last.pre[k].expires_at >= last.at
    /\ \E k \in DOMAIN last.pre : last.pre[k] # NoEntry /\ last.pre[k].expires_at < last.at

----------------------------------------------------------------------------
(* Claims about overwriting (Spec) *)

\* a step in which a lookup follows a store that wrote over an entry the key
\* already had
OverwriteThenLookup ==
    /\ StoreThenLookup
    /\ LastKey \in DOMAIN last.pre

\* C17: store overwrites: after store(k, r1) and then store(k, r2) on the same
\* triple, lookup returns r2 and the key holds one entry, the one of r2;
\* storing the same response twice shows the same lookup result as storing it
\* once (no merge, the last write wins).
C17_StoreOverwrites ==
    [][(OverwriteThenLookup /\ now <= last.at + (ttl_days * DaySecs)) =>
          /\ last'.result = Some(last.response)
          /\ DOMAIN db = DOMAIN last.pre
          /\ db[LastKey] = to_bytes(CacheEntry_new(last.response, ttl_days, last.at))]_vars

----------------------------------------------------------------------------
(* u64 arithmetic.  A u64 is its 8 bytes, least significant first, so that  *)
(* values up to u64::MAX and their overflow are computed exactly.           *)

\* bytes of a u64
U64Bytes == 8

\* the bytes of a small number n, least significant first, len of them
RECURSIVE Limbs(_, _)
Limbs(n, len) == IF len = 0 THEN <<>> ELSE <<n % 256>> \o Limbs(n \div 256, len - 1)

\* x * k + carry for a small factor k, exact: one byte longer than x
RECURSIVE MulCarry(_, _, _)
MulCarry(x, k, carry) ==
    IF x = <<>> THEN <<carry>>
    ELSE LET p == (x[1] * k) + carry
         IN  <<p % 256>> \o MulCarry(Tail(x), k, p \div 256)

\* x + y + carry for x and y of one length, exact: one byte longer
RECURSIVE AddCarry(_, _, _)
AddCarry(x, y, carry) ==
    IF x = <<>> THEN <<carry>>
    ELSE LET p == x[1] + y[1] + carry
         IN  <<p % 256>> \o AddCarry(Tail(x), Tail(y), p \div 256)

\* u64 * k: the wrapped product and whether it overflowed
mul_u64(x, k) ==
    LET p == MulCarry(x, k, 0)
    IN  [val |-> SubSeq(p, 1, U64Bytes), overflow |-> p[U64Bytes + 1] # 0]

\* u64 + u64: the wrapped sum and whether it overflowed
add_u64(x, y) ==
    LET p == AddCarry(x, y, 0)
    IN  [val |-> SubSeq(p, 1, U64Bytes), overflow |-> p[U64Bytes + 1] # 0]

\* CacheEntry::new on u64 operands: now + (ttl_days * 24 * 60 * 60).  With
\* overflow checks (a debug build) the first overflowing operation panics;
\* without them (a release build) every operation wraps.
CacheEntry_new_u64(response, ttl, t, overflow_checks) ==
    LET m1  == mul_u64(ttl, 24)
        m2  == mul_u64(m1.val, 60)
        m3  == mul_u64(m2.val, 60)
        sum == add_u64(t, m3.val)
        overflowed == m1.overflow \/ m2.overflow \/ m3.overflow \/ sum.overflow
    IN  IF overflow_checks /\ overflowed
        THEN [panicked |-> TRUE,
              entry |-> [response |-> response, created_at |-> t, expires_at |-> t]]
        ELSE [panicked |-> FALSE,
              entry |-> [response |-> response, created_at |-> t, expires_at |-> sum.val]]

----------------------------------------------------------------------------
(* SpecTtl: CacheEntry::new over the range of the ttl_days field *)

\* CacheConfig.ttl_days: 0, 1, 30, 36500, the largest value whose seconds fit
\* a u64 (213503982334601), the next one, 2^63 and u64::MAX
TtlValues ==
    {<<0, 0, 0, 0, 0, 0, 0, 0>>,
     <<1, 0, 0, 0, 0, 0, 0, 0>>,
     <<30, 0, 0, 0, 0, 0, 0, 0>>,
     <<148, 142, 0, 0, 0, 0, 0, 0>>,
     <<137, 114, 6, 69, 46, 194, 0, 0>>,
     <<138, 114, 6, 69, 46, 194, 0, 0>>,
     <<0, 0, 0, 0, 0, 0, 0, 128>>,
     <<255, 255, 255, 255, 255, 255, 255, 255>>}

\* SystemTime::now() in seconds: 0, 1, a day of 2025 and 2^32
ClockValues ==
    {<<0, 0, 0, 0, 0, 0, 0, 0>>,
     <<1, 0, 0, 0, 0, 0, 0, 0>>,
     <<0, 229, 11, 105, 0, 0, 0, 0>>,
     <<0, 0, 0, 0, 1, 0, 0, 0>>}

InitTtl ==
    /\ db = EmptyDb
    /\ written = NoWritten
    /\ now = 0
    /\ enabled = TRUE
    /\ ttl_days = 0
    /\ last = NoCall
    /\ nops = 0
    /\ tasks = IdleTasks
    /\ nreqs = 0
    /\ codec = NoCodec
    /\ \E ttl \in TtlValues, t \in ClockValues, checks \in BOOLEAN, response \in Responses :
          call = [stage |-> "args", response |-> response, ttl_days |-> ttl, now |-> t,
                  overflow_checks |-> checks,
                  result |-> CacheEntry_new_u64(<<>>, Limbs(0, U64Bytes), Limbs(0, U64Bytes), FALSE)]

\* store builds its entry
NewEntry ==
    /\ call.stage = "args"
    /\ call' = [call EXCEPT !.stage = "built",
                            !.result = CacheEntry_new_u64(call.response, call.ttl_days, call.now,
                                                          call.overflow_checks)]
    /\ UNCHANGED <<db, written, now, enabled, ttl_days, last, nops, tasks, nreqs, codec>>

NextTtl == NewEntry

SpecTtl == InitTtl /\ [][NextTtl]_vars

----------------------------------------------------------------------------
(* Claims about the expiry arithmetic (SpecTtl) *)

\* x as a number of len bytes, zero-padded
Widen(x, len) == x \o [i \in 1..(len - Len(x)) |-> 0]

\* created_at + ttl_days * 86400 as a number, exact, 12 bytes wide
ExactExpiry(created_at, ttl) ==
    AddCarry(Widen(created_at, 11), MulCarry(MulCarry(MulCarry(ttl, 24, 0), 60, 0), 60, 0), 0)

\* C18: every entry store creates has expires_at = created_at + ttl_days*86400
\* (hence expires_at >= created_at), for every ttl_days of the 64-bit unsigned
\* configuration field, without wrap-around and without the store aborting.
C18_ExpiryIsCreatedPlusTtl ==
    call.stage = "built" =>
        /\ ~call.result.panicked
        /\ call.result.entry.created_at = call.now
        /\ Widen(call.result.entry.expires_at, 12)
              = ExactExpiry(call.result.entry.created_at, call.ttl_days)

----------------------------------------------------------------------------
(* llm.rs: texts of the provider.  A text is the sequence of its runs, a    *)
(* run being a character and how often it is repeated, so that texts around *)
(* the 2000 limit stay small; adjacent runs hold different characters.      *)

\* a two-byte character (U+00E9), beside the one-byte "a", " " and "."
EAcute == "\\u00E9"

Run(c, n) == [c |-> c, n |-> n]

\* bytes of the UTF-8 encoding of a character
Width(c) == IF c = EAcute THEN 2 ELSE 1

\* char::is_whitespace
IsWhite(c) == c = " "

\* str::len: the length in bytes
RECURSIVE str_len(_)
str_len(s) == IF s = <<>> THEN 0 ELSE (s[1].n * Width(s[1].c)) + str_len(Tail(s))

RECURSIVE trim_start(_)
trim_start(s) == IF s # <<>> /\ IsWhite(s[1].c) THEN trim_start(Tail(s)) ELSE s

RECURSIVE trim_end(_)
trim_end(s) ==
    IF s # <<>> /\ IsWhite(s[Len(s)].c) THEN trim_end(SubSeq(s, 1, Len(s) - 1)) ELSE s

\* str::trim
trim(s) == trim_end(trim_start(s))

\* &s[..k]: the first k bytes; panics when byte k is not a character boundary
RECURSIVE byte_slice_to(_, _)
byte_slice_to(s, k) ==
    IF k = 0 THEN [ok |-> TRUE, val |-> <<>>]
    ELSE IF s = <<>> THEN [ok |-> FALSE, val |-> <<>>]
    ELSE LET w == Width(s[1].c)
             b == s[1].n * w
         IN  IF k >= b
             THEN LET r == byte_slice_to(Tail(s), k - b)
                  IN  [ok |-> r.ok, val |-> IF r.ok THEN <<s[1]>> \o r.val ELSE <<>>]
             ELSE IF k % w = 0 THEN [ok |-> TRUE, val |-> <<Run(s[1].c, k \div w)>>]
             ELSE [ok |-> FALSE, val |-> <<>>]

\* String + &str
concat(s, t) ==
    IF s = <<>> THEN t
    ELSE IF t = <<>> THEN s
    ELSE IF s[Len(s)].c = t[1].c
    THEN SubSeq(s, 1, Len(s) - 1) \o <<Run(t[1].c, s[Len(s)].n + t[1].n)>> \o Tail(t)
    ELSE s \o t

\* let max_length = 2000
max_length == 2000

\* the truncation marker
Ellipsis == <<Run(".", 3)>>

\* trim, and cut a text longer than max_length
truncated(content) ==
    LET trimmed == trim(content)
    IN  IF str_len(trimmed) > max_length
        THEN LET cut == byte_slice_to(trimmed, max_length)
             IN  IF cut.ok THEN OkText(concat(cut.val, Ellipsis)) ELSE Panicked
        ELSE OkText(trimmed)

----------------------------------------------------------------------------
(* llm.rs: the response body as a serde_json::Value, and its parsing *)

JNull      == [t |-> "null"]
JNum       == [t |-> "num"]
JStr(s)    == [t |-> "str", s |-> s]
JArr(a)    == [t |-> "arr", items |-> a]
JObj(f)    == [t |-> "obj", fields |-> f]

\* Option<&Value>
Found(v) == [some |-> TRUE, v |-> v]
Missing  == [some |-> FALSE, v |-> JNull]

\* Value::get(key): the member of an object, None on everything else
get(o, key) ==
    IF o.some /\ o.v.t = "obj" /\ key \in DOMAIN o.v.fields
    THEN Found(o.v.fields[key]) ELSE Missing

\* and_then(Value::as_str), and_then(Value::as_array)
as_str(o)   == IF o.some /\ o.v.t = "str" THEN o ELSE Missing
as_array(o) == IF o.some /\ o.v.t = "arr" THEN o ELSE Missing

\* <[Value]>::first of an array found
first(o) == IF o.some /\ o.v.items # <<>> THEN Found(o.v.items[1]) ELSE Missing

\* str::contains
contains(s, sub) ==
    \E i \in 1..(Len(s) - Len(sub) + 1) : SubSeq(s, i, i + Len(sub) - 1) = sub

\* the URL rule that selects the Ollama family
is_ollama(llm_url) ==
    \/ contains(llm_url, <<"o", "l", "l", "a", "m", "a">>)
    \/ contains(llm_url, <<"l", "o", "c", "a", "l", "h", "o", "s", "t", ":", "1", "1", "4", "3", "4">>)

\* the fallback: the format error, carrying the body
UnrecognizedFormat(response_data) ==
    [kind |-> "llm_err", val |-> <<>>, count |-> 0,
     err |-> "Unrecognized LLM response format", body |-> response_data]

\* message.content of the Ollama shape
ollama_text(response_data) ==
    as_str(get(get(Found(response_data), "message"), "content"))

\* mutant: the text of any content element of any output element is taken
openai_text_any_element(response_data) ==
    LET Elems(o)  == IF o.some THEN {o.v.items[i] : i \in DOMAIN o.v.items} ELSE {}
        outputs   == Elems(as_array(get(Found(response_data), "output")))
        contents  == UNION {Elems(as_array(get(Found(e), "content"))) : e \in outputs}
        found     == {c \in contents : as_str(get(Found(c), "text")).some}
    IN  IF found = {} THEN Missing
        ELSE as_str(get(Found(CHOOSE c \in found : TRUE), "text"))

\* output[0].content[0].text of the OpenAI shape
openai_text(response_data) ==
    as_str(get(first(as_array(get(first(as_array(get(Found(response_data), "output"))),
                                  "content"))),
               "text"))

\* mutant: when the family's own shape is not found the other shape is tried
parse_response_any_shape(llm_url, response_data) ==
    LET own   == IF is_ollama(llm_url) THEN ollama_text(response_data)
                 ELSE openai_text(response_data)
        other == IF is_ollama(llm_url) THEN openai_text(response_data)
                 ELSE ollama_text(response_data)
    IN  IF own.some THEN truncated(own.v.s)
        ELSE IF other.some THEN truncated(other.v.s)
        ELSE UnrecognizedFormat(response_data)

\* mutant: without the family's shape, a string found under the first key of
\* the shape is taken for the text
parse_response_guessing(llm_url, response_data) ==
    LET text  == IF is_ollama(llm_url) THEN ollama_text(response_data)
                 ELSE openai_text(response_data)
        guess == IF is_ollama(llm_url) THEN as_str(get(Found(response_data), "message"))
                 ELSE as_str(get(Found(response_data), "output"))
    IN  IF text.some THEN truncated(text.v.s)
        ELSE IF guess.some THEN truncated(guess.v.s)
        ELSE UnrecognizedFormat(response_data)

\* query_llm from the parsed body on: the text of the family's shape, trimmed
\* and cut, or the format error
parse_response(llm_url, response_data) ==
    LET text == IF is_ollama(llm_url) THEN ollama_text(response_data)
                ELSE openai_text(response_data)
    IN  IF text.some THEN truncated(text.v.s) ELSE UnrecognizedFormat(response_data)

----------------------------------------------------------------------------
(* SpecLlm: query_llm parses the body of a success response *)

\* SpecLlm: most runs of a provider text
MaxTextRuns == 2

TextChars == {"a", EAcute, " "}

\* run lengths around the limit, in characters and in bytes
RunCounts == {1, max_length \div 2, max_length - 1, max_length, max_length + 1}

\* the texts of at most n runs
RECURSIVE TextsUpTo(_)
TextsUpTo(n) ==
    IF n = 0 THEN {<<>>}
    ELSE LET shorter == TextsUpTo(n - 1)
         IN  shorter \cup
             {Append(w, Run(c, k)) : w \in {v \in shorter : Len(v) = n - 1},
                                     c \in TextChars, k \in RunCounts}

LlmTexts == {w \in TextsUpTo(MaxTextRuns) :
                \A i \in 1..(Len(w) - 1) : w[i].c # w[i + 1].c}

\* two short texts, to tell the shapes of one body apart
TextM == <<Run("a", 1)>>
TextO == <<Run(EAcute, 1)>>

\* AppConfig.llm_url
LlmUrls ==
    {<<"h", "t", "t", "p", ":", "/", "/", "l", "o", "c", "a", "l", "h", "o", "s", "t", ":", "1", "1", "4", "3", "4", "/", "a", "p", "i", "/", "c", "h", "a", "t">>,
     <<"h", "t", "t", "p", ":", "/", "/", "o", "l", "l", "a", "m", "a", ".", "l", "a", "n", "/", "a", "p", "i", "/", "c", "h", "a", "t">>,
     <<"h", "t", "t", "p", "s", ":", "/", "/", "a", "p", "i", ".", "o", "p", "e", "n", "a", "i", ".", "c", "o", "m", "/", "v", "1", "/", "r", "e", "s", "p", "o", "n", "s", "e", "s">>,
     <<"h", "t", "t", "p", ":", "/", "/", "l", "o", "c", "a", "l", "h", "o", "s", "t", ":", "1", "1", "4", "3", "/", "v", "1", "/", "r", "e", "s", "p", "o", "n", "s", "e", "s">>}

\* a body of the Ollama shape, of the OpenAI shape, and of both
OllamaBody(text) == JObj([message |-> JObj([content |-> JStr(text)])])

OpenAIOutput(text) == JArr(<<JObj([content |-> JArr(<<JObj([text |-> JStr(text)])>>)])>>)

OpenAIBody(text) == JObj([output |-> OpenAIOutput(text)])

BothBody(mt, ot) ==
    JObj([message |-> JObj([content |-> JStr(mt)]), output |-> OpenAIOutput(ot)])

\* bodies of neither shape
OtherBodies ==
    {JNull,
     JArr(<<>>),
     JObj([error |-> JStr(TextM)]),
     JObj([message |-> JStr(TextM)]),
     JObj([message |-> JObj([content |-> JNum])]),
     JObj([message |-> JObj([text |-> JStr(TextM)])]),
     JObj([output |-> JStr(TextO)]),
     JObj([output |-> JArr(<<>>)]),
     JObj([output |-> JArr(<<JObj([text |-> JStr(TextO)])>>)]),
     JObj([output |-> JArr(<<JObj([content |-> JStr(TextO)])>>)]),
     JObj([output |-> JArr(<<JObj([content |-> JArr(<<>>)])>>)]),
     JObj([output |-> JArr(<<JObj([content |-> JArr(<<JObj([text |-> JNum])>>)])>>)]),
     JObj([output |-> JArr(<<JObj([content |-> JArr(<<JObj([kind |-> JNum]),
                                                      JObj([text |-> JStr(TextO)])>>)])>>)]),
     JObj([output |-> JArr(<<JObj([kind |-> JNum]),
                             JObj([content |-> JArr(<<JObj([text |-> JStr(TextO)])>>)])>>)])}

ResponseBodies ==
    {OllamaBody(t) : t \in LlmTexts}
    \cup {OpenAIBody(t) : t \in LlmTexts}
    \cup {BothBody(TextM, TextO)}
    \cup OtherBodies

InitLlm ==
    /\ db = EmptyDb
    /\ written = NoWritten
    /\ now = 0
    /\ enabled = TRUE
    /\ ttl_days = 0
    /\ last = NoCall
    /\ nops = 0
    /\ tasks = IdleTasks
    /\ nreqs = 0
    /\ codec = NoCodec
    /\ \E u \in LlmUrls, b \in ResponseBodies :
          call = [stage |-> "response", llm_url |-> u, response_data |-> b, result |-> Pending]

\* the rest of query_llm once the body is parsed as JSON
ParseResponse ==
    /\ call.stage = "response"
    /\ call' = [call EXCEPT !.stage = "parsed",
                            !.result = parse_response(call.llm_url, call.response_data)]
    /\ UNCHANGED <<db, written, now, enabled, ttl_days, last, nops, tasks, nreqs, codec>>

NextLlm == ParseResponse

SpecLlm == InitLlm /\ [][NextLlm]_vars

----------------------------------------------------------------------------
(* Claims about the response parser (SpecLlm) *)

\* the number of characters of a text
RECURSIVE Chars(_)
Chars(s) == IF s = <<>> THEN 0 ELSE s[1].n + Chars(Tail(s))

\* the first k characters of a text
RECURSIVE TakeChars(_, _)
TakeChars(s, k) ==
    IF k = 0 \/ s = <<>> THEN <<>>
    ELSE IF s[1].n >= k THEN <<Run(s[1].c, k)>>
    ELSE <<s[1]>> \o TakeChars(Tail(s), k - s[1].n)

\* the URLs of the Ollama family, by name
OllamaUrls ==
    {<<"h", "t", "t", "p", ":", "/", "/", "l", "o", "c", "a", "l", "h", "o", "s", "t", ":", "1", "1", "4", "3", "4", "/", "a", "p", "i", "/", "c", "h", "a", "t">>,
     <<"h", "t", "t", "p", ":", "/", "/", "o", "l", "l", "a", "m", "a", ".", "l", "a", "n", "/", "a", "p", "i", "/", "c", "h", "a", "t">>}

\* the body carries text in the shape of the URL's family
ExtractedFrom(text) ==
    \/ call.llm_url \in OllamaUrls /\ call.response_data = OllamaBody(text)
    \/ call.llm_url \notin OllamaUrls /\ call.response_data = OpenAIBody(text)

\* C19: for every extracted provider text the adapter's result is the trimmed
\* text as it is when the trimmed text has at most 2000 characters, and
\* otherwise the first 2000 characters of the trimmed text followed by "...".
C19_TruncationLaw ==
    call.stage = "parsed" =>
        \A text \in LlmTexts :
            ExtractedFrom(text) =>
                call.result = IF Chars(trim(text)) <= max_length
                              THEN OkText(trim(text))
                              ELSE OkText(concat(TakeChars(trim(text), max_length), Ellipsis))

\* C20: the parser applies the shape of the family the URL selects only: on a
\* body with both message.content and output[0].content[0].text an Ollama URL
\* yields the message.content text and any other URL the output text; a body
\* with the other family's shape only yields the unrecognized-format error,
\* never that text.
C20_ShapeOfTheFamilyOnly ==
    call.stage = "parsed" =>
        /\ call.response_data = BothBody(TextM, TextO) =>
              call.result = IF call.llm_url \in OllamaUrls THEN OkText(TextM) ELSE OkText(TextO)
        /\ \A text \in LlmTexts :
              (\/ call.llm_url \in OllamaUrls /\ call.response_data = OpenAIBody(text)
               \/ call.llm_url \notin OllamaUrls /\ call.response_data = OllamaBody(text))
              => (call.result.kind = "llm_err"
                  /\ call.result.err = "Unrecognized LLM response format")

\* C20 witness: a body with both shapes was parsed under an Ollama URL to the
\* message.content text
C20_Witness ==
    /\ call.stage = "parsed"
    /\ call.llm_url \in OllamaUrls
    /\ call.response_data = BothBody(TextM, TextO)
    /\ call.result = OkText(TextM)

\* the body has the shape of the URL's family: some text is where the family
\* keeps it
HasFamilyShape ==
    \E text \in LlmTexts \cup {TextM, TextO} :
        \/ ExtractedFrom(text)
        \/ call.response_data = BothBody(TextM, TextO)

\* C21: when the body of a success response has no recognized shape for the
\* configured family, the adapter returns the unrecognized-format error, which
\* carries the body, and never a text made from a part of the payload.
C21_NoShapeIsAnError ==
    call.stage = "parsed" =>
        (~HasFamilyShape =>
            /\ call.result.kind = "llm_err"
            /\ call.result.err = "Unrecognized LLM response format"
            /\ call.result.body = call.response_data
            /\ call.result.val = <<>>)

\* C21 witness: a body whose message is a string, not an object, was parsed
\* under an Ollama URL to the format error carrying that body
C21_Witness ==
    /\ call.stage = "parsed"
    /\ call.llm_url \in OllamaUrls
    /\ call.response_data = JObj([message |-> JStr(TextM)])
    /\ call.result = UnrecognizedFormat(call.response_data)

\* ---------------------------------------------------------------------------
\* query_llm from the request text to the parsed body (llm.rs): the prompt,
\* the request body of the family, the merged overrides, the credential, the
\* request on the network, the status and the body
\* ---------------------------------------------------------------------------

\* the placeholder of a prompt template
Placeholder == <<"{", "i", "n", "p", "u", "t", "}">>

\* str::replace: every match of the pattern, found from the left in one scan
\* of the receiver, gives way to the replacement
RECURSIVE replace(_, _, _)
replace(s, from, to) ==
    IF Len(s) < Len(from) THEN s
    ELSE IF SubSeq(s, 1, Len(from)) = from
         THEN to \o replace(SubSeq(s, Len(from) + 1, Len(s)), from, to)
         ELSE <<Head(s)>> \o replace(Tail(s), from, to)

\* Option<String>, Option<Value>
SomeOf(v) == [some |-> TRUE, v |-> v]
NoneOf    == [some |-> FALSE, v |-> <<>>]

\* mutant: the template is expanded a second time
final_prompt_twice(text, template) ==
    IF template.some
    THEN replace(replace(template.v, Placeholder, text), Placeholder, text)
    ELSE text

\* the prompt sent to the provider
final_prompt(text, template) ==
    IF template.some THEN replace(template.v, Placeholder, text) ELSE text

\* numbers and booleans of a request body
JNumber(n) == [t |-> "num", n |-> n]
JBool(b)   == [t |-> "bool", b |-> b]

SystemText == <<"s", "y", "s">>

\* the body of the Ollama chat endpoint
ollama_payload(model, prompt) ==
    [model       |-> JStr(model),
     messages    |-> JArr(<<JObj([role |-> JStr(<<"system">>), content |-> JStr(SystemText)]),
                            JObj([role |-> JStr(<<"user">>), content |-> JStr(prompt)])>>),
     temperature |-> JNumber("0.3"),
     top_p       |-> JNumber("0.8"),
     stream      |-> JBool(FALSE)]

\* the body of the OpenAI responses endpoint
openai_payload(model, prompt) ==
    [model             |-> JStr(model),
     input             |-> JArr(<<JObj([role |-> JStr(<<"system">>),
                                        content |-> JArr(<<JObj([type |-> JStr(<<"input_text">>),
                                                                 text |-> JStr(SystemText)])>>)]),
                                  JObj([role |-> JStr(<<"user">>),
                                        content |-> JArr(<<JObj([type |-> JStr(<<"input_text">>),
                                                                 text |-> JStr(prompt)])>>)])>>),
     text              |-> JObj([format |-> JObj([type |-> JStr(<<"text">>)])]),
     reasoning         |-> JObj(<<>>),
     tools             |-> JArr(<<>>),
     temperature       |-> JNumber("0.7"),
     max_output_tokens |-> JNumber("2048"),
     top_p             |-> JNumber("0.8"),
     store             |-> JBool(TRUE)]

\* the body of the family the URL selects
base_payload(llm_url, model, prompt) ==
    IF is_ollama(llm_url) THEN ollama_payload(model, prompt)
    ELSE openai_payload(model, prompt)

\* mutant: every key of the overrides is inserted
merge_params_unfiltered(payload, llm_params) ==
    IF llm_params.some /\ llm_params.v.t = "obj"
    THEN [k \in DOMAIN payload \cup DOMAIN llm_params.v.fields |->
             IF k \in DOMAIN llm_params.v.fields THEN llm_params.v.fields[k] ELSE payload[k]]
    ELSE payload

\* the body after the overrides of the configuration are merged in: each key
\* of an object of overrides but prompt_template is inserted
merge_params(payload, llm_params) ==
    IF llm_params.some /\ llm_params.v.t = "obj"
    THEN LET keys == DOMAIN llm_params.v.fields \ {"prompt_template"}
         IN  [k \in DOMAIN payload \cup keys |->
                 IF k \in keys THEN llm_params.v.fields[k] ELSE payload[k]]
    ELSE payload

\* the headers of the request
ContentType == [name |-> "Content-Type", value |-> <<"application/json">>]

auth_headers(config) ==
    {[name |-> "Authorization", value |-> <<"Bearer ">> \o config.openai_api_key.v]}
      \cup (IF config.openai_org_id.some
            THEN {[name |-> "OpenAI-Organization", value |-> config.openai_org_id.v]}
            ELSE {})
      \cup (IF config.openai_project_id.some
            THEN {[name |-> "OpenAI-Project", value |-> config.openai_project_id.v]}
            ELSE {})

\* the errors of query_llm apart from the format error
MissingApiKey == LlmApiError("Missing OpenAI API key")

RequestFailed(e) ==
    [kind |-> "llm_err", val |-> <<>>, count |-> 0,
     err |-> "OpenAI API request failed", cause |-> e]

StatusError(status, error_body) ==
    [kind |-> "llm_err", val |-> <<>>, count |-> 0,
     err |-> "OpenAI API error", status |-> status, body |-> error_body]

Reqwest(e) ==
    [kind |-> "reqwest_err", val |-> <<>>, count |-> 0, err |-> e]

\* mutant: the credential is asked of every family
needs_api_key_always(llm_url) == TRUE

\* the families that authenticate with a bearer token
needs_api_key(llm_url) == ~is_ollama(llm_url)

\* mutant: a redirect passes for a success
is_success_or_redirect(status) == 200 <= status /\ status <= 399

\* StatusCode::is_success
is_success(status) == 200 <= status /\ status <= 299

\* the text of a body: Response::text, and the placeholder of a failed read
RawText(s)    == [t |-> "text", s |-> s]
FailedToRead  == RawText(<<"Failed to read error body">>)
text_of(body) == IF body.readable THEN SomeOf(body.raw) ELSE NoneOf
unwrap_or_else(o, default) == IF o.some THEN o.v ELSE default

\* Response::json: the value of a body that is read and is JSON
json_of(body) ==
    IF ~body.readable THEN [ok |-> FALSE, err |-> "body", v |-> JNull]
    ELSE IF body.raw.t = "text" THEN [ok |-> FALSE, err |-> "decode", v |-> JNull]
    ELSE [ok |-> TRUE, err |-> "", v |-> body.raw]

\* ---------------------------------------------------------------------------
\* Specification SpecQuery: one call of query_llm, from the text and the
\* configuration to its result, with the provider's answers drawn from a set
\* ---------------------------------------------------------------------------

\* AppConfig.prompt_template
QueryTemplates ==
    {NoneOf,
     SomeOf(Placeholder),
     SomeOf(<<"p">>),
     SomeOf(<<"p", " ">> \o Placeholder \o <<"/">> \o Placeholder),
     SomeOf(<<"{", "i", "n", "p">> \o Placeholder \o <<"u", "t", "}">>)}

\* ProcessRequest.text
QueryTexts == {<<"a">>, <<>>, <<"a">> \o Placeholder}

\* AppConfig.llm_params
QueryParams ==
    {NoneOf,
     SomeOf(JStr(<<"x">>)),
     SomeOf(JObj([prompt_template |-> JStr(Placeholder)])),
     SomeOf(JObj([temperature |-> JNumber("1.5"), prompt_template |-> JStr(<<"t">>)])),
     SomeOf(JObj([model |-> JStr(<<"o">>), max_tokens |-> JNumber("64"), stream |-> JBool(TRUE)]))}

\* AppConfig.openai_api_key, openai_org_id, openai_project_id
ApiKeys    == {NoneOf, SomeOf(<<"sk">>)}
OrgIds     == {NoneOf, SomeOf(<<"org">>)}
ProjectIds == {NoneOf, SomeOf(<<"proj">>)}

QueryConfigs ==
    [llm_url : LlmUrls, model_name : {model_name}, llm_params : QueryParams,
     prompt_template : QueryTemplates, openai_api_key : ApiKeys,
     openai_org_id : OrgIds, openai_project_id : ProjectIds]

\* what the network gives for a request: no response, or a status and a body
Statuses == {200, 204, 302, 401, 500}

Bodies ==
    {[readable |-> FALSE, raw |-> RawText(<<>>)],
     [readable |-> TRUE, raw |-> RawText(<<"oops">>)],
     [readable |-> TRUE, raw |-> OllamaBody(TextM)],
     [readable |-> TRUE, raw |-> OpenAIBody(TextO)],
     [readable |-> TRUE, raw |-> JObj([error |-> JStr(TextM)])]}

NoResponse == [kind |-> "none", cause |-> "", status |-> 0, body |-> [readable |-> FALSE, raw |-> RawText(<<>>)]]

NetOutcomes ==
    {[kind |-> "transport", cause |-> c, status |-> 0, body |-> NoResponse.body] : c \in {"timeout", "connect"}}
      \cup {[kind |-> "http", cause |-> "", status |-> st, body |-> b] : st \in Statuses, b \in Bodies}

InitQuery ==
    /\ db = EmptyDb
    /\ written = NoWritten
    /\ now = 0
    /\ enabled = TRUE
    /\ ttl_days = 0
    /\ last = NoCall
    /\ nops = 0
    /\ tasks = IdleTasks
    /\ nreqs = 0
    /\ codec = NoCodec
    /\ \E text \in QueryTexts, config \in QueryConfigs :
          call = [stage |-> "start", text |-> text, config |-> config,
                  llm_url |-> config.llm_url, prompt |-> <<>>, payload |-> <<>>,
                  headers |-> {}, sent |-> 0, res |-> NoResponse,
                  response_data |-> JNull, result |-> Pending]

\* the prompt, the body, the overrides and the credential: the request is
\* ready, or the call ends for want of the API key
BuildRequest ==
    /\ call.stage = "start"
    /\ LET prompt  == final_prompt(call.text, call.config.prompt_template)
           payload == merge_params(base_payload(call.config.llm_url, call.config.model_name, prompt),
                                   call.config.llm_params)
       IN  IF needs_api_key(call.config.llm_url)
           THEN IF call.config.openai_api_key.some
                THEN call' = [call EXCEPT !.stage = "ready", !.prompt = prompt,
                                          !.payload = payload,
                                          !.headers = {ContentType} \cup auth_headers(call.config)]
                ELSE call' = [call EXCEPT !.stage = "done", !.prompt = prompt,
                                          !.payload = payload, !.headers = {ContentType},
                                          !.result = MissingApiKey]
           ELSE call' = [call EXCEPT !.stage = "ready", !.prompt = prompt,
                                     !.payload = payload, !.headers = {ContentType}]
    /\ UNCHANGED <<db, written, now, enabled, ttl_days, last, nops, tasks, nreqs, codec>>

\* the request goes out: a response comes back, or the call ends with the
\* failure of the transport
Send(outcome) ==
    /\ call.stage = "ready"
    /\ IF outcome.kind = "transport"
       THEN call' = [call EXCEPT !.stage = "done", !.sent = call.sent + 1,
                                 !.result = RequestFailed(outcome.cause)]
       ELSE call' = [call EXCEPT !.stage = "received", !.sent = call.sent + 1,
                                 !.res = outcome]
    /\ UNCHANGED <<db, written, now, enabled, ttl_days, last, nops, tasks, nreqs, codec>>

\* the status is looked at and the body read: as text for the error of a
\* status that is no success, as JSON otherwise
ReadBody ==
    /\ call.stage = "received"
    /\ IF ~is_success(call.res.status)
       THEN call' = [call EXCEPT !.stage = "done",
                        !.result = StatusError(call.res.status,
                                               unwrap_or_else(text_of(call.res.body), FailedToRead))]
       ELSE IF json_of(call.res.body).ok
            THEN call' = [call EXCEPT !.stage = "response",
                                      !.response_data = json_of(call.res.body).v]
            ELSE call' = [call EXCEPT !.stage = "done",
                                      !.result = Reqwest(json_of(call.res.body).err)]
    /\ UNCHANGED <<db, written, now, enabled, ttl_days, last, nops, tasks, nreqs, codec>>

NextQuery ==
    \/ BuildRequest
    \/ \E outcome \in NetOutcomes : Send(outcome)
    \/ ReadBody
    \/ ParseResponse

SpecQuery == InitQuery /\ [][NextQuery]_vars

\* ---------------------------------------------------------------------------
\* Claims about query_llm's request and about the provider's answer
\* ---------------------------------------------------------------------------

\* the request was built
Built == call.stage # "start"

\* the URLs of the bearer-token family
BearerUrls == LlmUrls \ OllamaUrls

\* C22: with a URL of the bearer-token family and no API key configured the
\* call fails with the missing-credential error and no request goes out on the
\* network; with a URL of the Ollama family no credential is asked for and the
\* call never fails for the want of one.
C22_CredentialBeforeNetwork ==
    Built =>
        /\ (call.llm_url \in BearerUrls /\ ~call.config.openai_api_key.some) =>
              /\ call.stage = "done"
              /\ call.result = MissingApiKey
              /\ call.sent = 0
        /\ call.llm_url \in OllamaUrls =>
              /\ call.result # MissingApiKey
              /\ call.stage = "done" => call.sent = 1
              /\ \A h \in call.headers : h.name # "Authorization"

\* C22 witness: a call under an OpenAI URL with no key ended with the
\* missing-credential error and nothing sent
C22_Witness ==
    /\ call.stage = "done"
    /\ call.llm_url \in BearerUrls
    /\ ~call.config.openai_api_key.some
    /\ call.result = MissingApiKey
    /\ call.sent = 0

\* the response's status and body were looked at
Answered == call.res.kind = "http" /\ call.stage # "received"

\* C23: every status that is no success ends the call with the adapter's error
\* carrying the status code and the text of the body, or the placeholder when
\* the body cannot be read; the body is never parsed as a result.
C23_ErrorStatusIsAnError ==
    (Answered /\ ~(call.res.status \in 200..299)) =>
        /\ call.stage = "done"
        /\ call.result.kind = "llm_err"
        /\ call.result.err = "OpenAI API error"
        /\ call.result.status = call.res.status
        /\ call.result.body = IF call.res.body.readable THEN call.res.body.raw
                              ELSE RawText(<<"Failed to read error body">>)
        /\ call.response_data = JNull

\* C23 witness: a 401 whose body could not be read ended the call with the
\* status and the placeholder
C23_Witness ==
    /\ call.stage = "done"
    /\ call.res.kind = "http" /\ call.res.status = 401
    /\ ~call.res.body.readable
    /\ call.result = StatusError(401, FailedToRead)

\* the overrides of the configuration: the members of llm_params when it is
\* an object
Overrides ==
    IF call.config.llm_params.some /\ call.config.llm_params.v.t = "obj"
    THEN call.config.llm_params.v.fields ELSE <<>>

\* the defaults of the family
FamilyDefaults ==
    IF call.llm_url \in OllamaUrls
    THEN ollama_payload(call.config.model_name, call.prompt)
    ELSE openai_payload(call.config.model_name, call.prompt)

\* C25: after the overrides are merged the body never has the key
\* prompt_template; every other key of the overrides holds the override's
\* value; every key the overrides do not name keeps the family's default.
C25_OverridesMerged ==
    Built =>
        /\ "prompt_template" \notin DOMAIN call.payload
        /\ \A k \in DOMAIN Overrides \ {"prompt_template"} :
              k \in DOMAIN call.payload /\ call.payload[k] = Overrides[k]
        /\ \A k \in DOMAIN FamilyDefaults \ DOMAIN Overrides :
              k \in DOMAIN call.payload /\ call.payload[k] = FamilyDefaults[k]
        /\ DOMAIN call.payload \subseteq DOMAIN FamilyDefaults \cup DOMAIN Overrides

\* C25 witness: overrides naming temperature and prompt_template went into an
\* Ollama body: the temperature replaced, the template left out
C25_Witness ==
    /\ Built
    /\ call.llm_url \in OllamaUrls
    /\ DOMAIN Overrides = {"temperature", "prompt_template"}
    /\ call.payload["temperature"] = JNumber("1.5")
    /\ call.payload["top_p"] = JNumber("0.8")
    /\ "prompt_template" \notin DOMAIN call.payload

\* the places of the placeholder in a template
Places(template) ==
    {i \in 1..(Len(template) - Len(Placeholder) + 1) :
        SubSeq(template, i, i + Len(Placeholder) - 1) = Placeholder}

\* the template with the input at every place of the placeholder, taken from
\* the right end
RECURSIVE Expanded(_, _)
Expanded(template, text) ==
    IF Places(template) = {} THEN template
    ELSE LET i == CHOOSE p \in Places(template) : \A q \in Places(template) : q <= p
         IN  Expanded(SubSeq(template, 1, i - 1), text) \o text
               \o SubSeq(template, i + Len(Placeholder), Len(template))

\* C26: the prompt sent is the input as it is when no template is configured,
\* and otherwise the template with each {input} replaced by the input in one
\* pass: a placeholder inside the input is not replaced again.
C26_PromptFromTemplate ==
    Built =>
        call.prompt = IF call.config.prompt_template.some
                      THEN Expanded(call.config.prompt_template.v, call.text)
                      ELSE call.text

\* C26 witness: an input holding the placeholder went into the template
\* {input} and came out as it is
C26_Witness ==
    /\ Built
    /\ call.config.prompt_template = SomeOf(Placeholder)
    /\ call.text = <<"a">> \o Placeholder
    /\ call.prompt = call.text

\* ---------------------------------------------------------------------------
\* Specification SpecErr: AppError::into_response (errors.rs), applied to the
\* errors of query_llm and to the errors of the other variants
\* ---------------------------------------------------------------------------

\* the variants of AppError that query_llm does not construct
Config(e)      == [kind |-> "config_err", val |-> <<>>, count |-> 0, err |-> e]
SerdeJson(e)   == [kind |-> "json_err", val |-> <<>>, count |-> 0, err |-> e]
Io(e)          == [kind |-> "io_err", val |-> <<>>, count |-> 0, err |-> e]
MissingHomeDir == [kind |-> "home_err", val |-> <<>>, count |-> 0, err |-> ""]
Internal(msg)  == [kind |-> "internal_err", val |-> <<>>, count |-> 0, err |-> msg]

\* StatusCode
BAD_GATEWAY           == 502
INTERNAL_SERVER_ERROR == 500

\* the message of a response: the text put before the error, and the error
\* whose text follows
error_message(prefix, e) == JStr([prefix |-> prefix, of |-> e])

\* mutant: every error is answered as an internal error
status_of_internal(e) == INTERNAL_SERVER_ERROR

\* the status of an error
status_of(e) ==
    CASE e.kind = "config_err"   -> INTERNAL_SERVER_ERROR
      [] e.kind = "reqwest_err"  -> BAD_GATEWAY
      [] e.kind = "json_err"     -> INTERNAL_SERVER_ERROR
      [] e.kind = "llm_err"      -> BAD_GATEWAY
      [] e.kind = "io_err"       -> INTERNAL_SERVER_ERROR
      [] e.kind = "home_err"     -> INTERNAL_SERVER_ERROR
      [] e.kind = "internal_err" -> INTERNAL_SERVER_ERROR

\* the response of an error: the status, and the JSON object of the message
into_response(e) ==
    LET message ==
          CASE e.kind = "config_err"   -> error_message("Configuration error: ", e)
            [] e.kind = "reqwest_err"  -> error_message("LLM request failed: ", e)
            [] e.kind = "json_err"     -> error_message("JSON processing error: ", e)
            [] e.kind = "llm_err"      -> error_message("", e)
            [] e.kind = "io_err"       -> error_message("IO error: ", e)
            [] e.kind = "home_err"     -> error_message("Could not determine home directory", e)
            [] e.kind = "internal_err" -> error_message("", e)
    IN  [status |-> status_of(e), body |-> JObj([error |-> message])]

\* the errors of the provider as query_llm makes them
CredentialErrors == {MissingApiKey}
TransportErrors  == {RequestFailed(c) : c \in {"timeout", "connect"}}
UpstreamErrors   ==
    {StatusError(st, unwrap_or_else(text_of(b), FailedToRead)) :
        st \in {x \in Statuses : ~is_success(x)}, b \in Bodies}
FormatErrors     == {UnrecognizedFormat(b) : b \in OtherBodies}
DecodeErrors     == {Reqwest(c) : c \in {"body", "decode"}}

\* the errors of the service itself
Causes == {"not found", "denied", "invalid", "eof", "broken pipe", "utf8"}

LocalErrors ==
    {Config(c) : c \in Causes} \cup {SerdeJson(c) : c \in Causes}
      \cup {Io(c) : c \in Causes} \cup {MissingHomeDir}
      \cup {Internal(c) : c \in Causes}

AppErrors ==
    CredentialErrors \cup TransportErrors \cup UpstreamErrors \cup FormatErrors
      \cup DecodeErrors \cup LocalErrors

NoHttpResponse == [status |-> 0, body |-> JNull]

InitErr ==
    /\ db = EmptyDb
    /\ written = NoWritten
    /\ now = 0
    /\ enabled = TRUE
    /\ ttl_days = 0
    /\ last = NoCall
    /\ nops = 0
    /\ tasks = IdleTasks
    /\ nreqs = 0
    /\ codec = NoCodec
    /\ \E e \in AppErrors :
          call = [stage |-> "error", error |-> e, response |-> NoHttpResponse]

\* the handler's error becomes the response of the request
IntoResponse ==
    /\ call.stage = "error"
    /\ call' = [call EXCEPT !.stage = "responded", !.response = into_response(call.error)]
    /\ UNCHANGED <<db, written, now, enabled, ttl_days, last, nops, tasks, nreqs, codec>>

NextErr == IntoResponse

SpecErr == InitErr /\ [][NextErr]_vars

\* C24: every failed request is answered with the JSON object {error:
\* message}; the status is 502 for an error of the provider (missing
\* credential, transport failure, upstream status that is no success,
\* unrecognized format) and 500 for a configuration, JSON, I/O,
\* missing-home-directory or internal error.
C24_StatusByClass ==
    call.stage = "responded" =>
        /\ call.response.body.t = "obj"
        /\ DOMAIN call.response.body.fields = {"error"}
        /\ call.response.body.fields["error"].t = "str"
        /\ call.response.body.fields["error"].s.of = call.error
        /\ call.error \in CredentialErrors \cup TransportErrors
                            \cup UpstreamErrors \cup FormatErrors =>
              call.response.status = 502
        /\ call.error \in LocalErrors => call.response.status = 500

\* C24 witness: the missing-credential error was answered with 502
C24_Witness ==
    /\ call.stage = "responded"
    /\ call.error = MissingApiKey
    /\ call.response.status = 502
    /\ call.response.body = JObj([error |-> error_message("", MissingApiKey)])

\* ---------------------------------------------------------------------------
\* Claims about requests running side by side (SpecPipe)
\* ---------------------------------------------------------------------------

\* task i went by a miss to the provider, got a response and stored it
MissedAndStored(i) ==
    /\ tasks[i].look = "absent"
    /\ tasks[i].calls = 1
    /\ tasks[i].provider.kind = "ok"
    /\ tasks[i].stored = "ok"

\* the step in which task i stores, after task j, which missed on the same
\* text while i was under way, has stored and returned
LaterStore(i, j) ==
    /\ i # j
    /\ enabled
    /\ tasks[j].pc = "done" /\ MissedAndStored(j)
    /\ tasks[i].text = tasks[j].text
    /\ tasks[i].pc = "store" /\ tasks[i].look = "absent"
    /\ tasks'[i].pc = "done" /\ tasks'[i].stored = "ok"

\* C27: two requests for the same fingerprint running side by side may both
\* miss and both call the provider; each returns the response of its own
\* provider call, and once both have finished there is one entry under the
\* key, the one the later store wrote.
C27_LaterStoreWins ==
    [][\A i, j \in TaskIds :
          LaterStore(i, j) =>
              /\ tasks'[i].result = OkText(tasks[i].provider.val)
              /\ tasks'[j].result = OkText(tasks[j].provider.val)
              /\ tasks'[i].calls = 1
              /\ TaskKey(i) \in DOMAIN db'
              /\ db'[TaskKey(i)] = to_bytes(CacheEntry_new(tasks[i].provider.val, ttl_days, now))
              /\ DOMAIN db' = DOMAIN db \cup {TaskKey(i)}
              /\ \A k \in DOMAIN db \ {TaskKey(i)} : db'[k] = db[k]]_vars

\* C27 witness: two requests for text "a" both missed, both called the
\* provider and got different responses, both have finished, and the entry
\* under the key holds one of the two responses
C27_Witness ==
    /\ \A i \in TaskIds : Done(i) /\ MissedAndStored(i) /\ tasks[i].text = <<"a">>
    /\ tasks[1].result # tasks[2].result
    /\ tasks[1].result = tasks[1].provider
    /\ tasks[2].result = tasks[2].provider
    /\ TaskKey(1) \in DOMAIN db
    /\ \E i \in TaskIds :
          /\ written[TaskKey(1)].response = tasks[i].provider.val
          /\ db[TaskKey(1)] = to_bytes(written[TaskKey(1)])

\* the handler of task i has ended
Ended(i) == tasks[i].pc \notin {"idle", "lookup", "remove", "llm", "store"}

\* the three outcomes of a request
HitOutcome(i) ==
    /\ tasks[i].look = "hit" /\ tasks[i].calls = 0
    /\ tasks[i].result.kind = "ok" /\ tasks[i].stored = "no"

ResponseOutcome(i) ==
    /\ tasks[i].look # "hit" /\ tasks[i].calls = 1
    /\ tasks[i].provider.kind = "ok" /\ tasks[i].result = tasks[i].provider
    /\ enabled => tasks[i].stored # "no"

ErrorOutcome(i) ==
    /\ tasks[i].look # "hit" /\ tasks[i].calls = 1
    /\ tasks[i].provider.kind = "llm_err" /\ tasks[i].result = tasks[i].provider
    /\ tasks[i].stored = "no"

\* C30: every request ends in one of three outcomes: the cached response on a
\* hit, the provider's response after the attempt to store it, or the
\* provider's error; the provider is called at most once for a request and
\* not at all on a hit.
C30_OneTerminalOutcome ==
    \A i \in TaskIds :
        /\ tasks[i].calls <= 1
        /\ tasks[i].look = "hit" => tasks[i].calls = 0
        /\ Ended(i) => (HitOutcome(i) \/ ResponseOutcome(i) \/ ErrorOutcome(i))

\* ---------------------------------------------------------------------------
\* Claims about the cache key
\* ---------------------------------------------------------------------------

\* the keys in the store that are the big-endian bytes of the number h:
\* eight bytes, the number read off them most significant byte first
KeysOf(h) ==
    {k \in DOMAIN db :
        /\ Len(k) = 8
        /\ \A i \in 1..8 : k[i] \in 0..255
        /\ \A i \in 1..4 : k[i] = 0
        /\ ((k[5] * 256 + k[6]) * 256 + k[7]) * 256 + k[8] = h}

\* the hashes of the triples a store may be called with
TripleHashes == {DefaultHash(combined(x[1], x[2], x[3])) : x \in Triples}

KeyModels == {<<"m">>, <<"m", Pipe, "1">>, <<"n">>}
KeyHashes == {1, 2}
KeyTexts  == {<<"a">>, <<"2", Pipe, "a">>, <<"b">>}

KeyTriples == [text : KeyTexts, model : KeyModels, prompt_template_hash : KeyHashes]

InitKey ==
    /\ db = EmptyDb
    /\ written = NoWritten
    /\ now = 0
    /\ enabled = TRUE
    /\ ttl_days = 0
    /\ last = NoCall
    /\ nops = 0
    /\ tasks = IdleTasks
    /\ nreqs = 0
    /\ codec = NoCodec
    /\ \E x \in KeyTriples, y \in KeyTriples :
          call = [stage |-> "triples", x |-> x, y |-> y, cx |-> <<>>, cy |-> <<>>]

\* generate_key forms the string of each triple
Combine ==
    /\ call.stage = "triples"
    /\ call' = [call EXCEPT
                   !.stage = "combined",
                   !.cx = combined(call.x.text, call.x.model, call.x.prompt_template_hash),
                   !.cy = combined(call.y.text, call.y.model, call.y.prompt_template_hash)]
    /\ UNCHANGED <<db, written, now, enabled, ttl_days, last, nops, tasks, nreqs, codec>>

NextKey == Combine

SpecKey == InitKey /\ [][NextKey]_vars

\* C29: the string that is hashed encodes the triple without ambiguity: two
\* distinct triples, whatever their model and text (the separator included),
\* give distinct strings, so two triples share a key only when the hash
\* function collides.
C29_PreHashUnambiguous ==
    call.stage = "combined" => (call.x # call.y => call.cx # call.cy)

\* ---------------------------------------------------------------------------
\* Specification SpecLong: the handler's tasks with provider responses at and
\* above the length the handler logs
\* ---------------------------------------------------------------------------

\* a response of n characters
ResponseOf(n) == [i \in 1..n |-> "r"]

LongResponses == {ResponseOf(1), ResponseOf(unusually_long), ResponseOf(unusually_long + 1)}

LongOutcomes == {OkText(r) : r \in LongResponses}

NextLong ==
    \/ Tick
    \/ Accept(<<"a">>)
    \/ \E i \in TaskIds : LookupRead(i, FALSE)
    \/ \E i \in TaskIds : LookupRemove(i, FALSE)
    \/ \E i \in TaskIds, outcome \in LongOutcomes : Provider(i, outcome)
    \/ \E i \in TaskIds, insertFails \in BOOLEAN : StoreStep(i, insertFails)

SpecLong == InitPipe /\ [][NextLong]_vars

\* the step in which task i returns the provider's response
ReturnsResponse(i) ==
    /\ tasks[i].pc \in {"llm", "store"}
    /\ tasks'[i].pc = "done"
    /\ tasks'[i].provider.kind = "ok"

\* C31: on the miss path the text returned is the adapter's result and the
\* text written to the cache, whatever its length: a response of more than
\* 1000 characters is not refused, not altered, and is cached like any other.
C31_MissPathTextUnaltered ==
    [][\A i \in TaskIds :
          ReturnsResponse(i) =>
              /\ tasks'[i].result = OkText(tasks'[i].provider.val)
              /\ enabled => tasks'[i].stored # "no"
              /\ tasks'[i].stored = "ok" =>
                    /\ TaskKey(i) \in DOMAIN db'
                    /\ db'[TaskKey(i)] = tasks'[i].provider.val \o <<Pipe>> \o Dec(now)
                                           \o <<Pipe>> \o Dec(now + (ttl_days * DaySecs))]_vars

\* C31 witness: a response of 1001 characters was returned whole and is in the
\* store under the request's key
C31_Witness ==
    \E i \in TaskIds :
        /\ Done(i) /\ tasks[i].stored = "ok"
        /\ Len(tasks[i].result.val) = 1001
        /\ tasks[i].result = tasks[i].provider
        /\ TaskKey(i) \in DOMAIN db
        /\ SubSeq(db[TaskKey(i)], 1, 1001) = tasks[i].result.val

\* ---------------------------------------------------------------------------
\* The frame of lookup and store (Spec)
\* ---------------------------------------------------------------------------

\* the step is a call of lookup or of store
KeyedCall == nops' = nops + 1 /\ last'.op \in {"store", "lookup"}

\* the key of the call made in the step
CalledKey == generate_key(last'.text, last'.model, last'.tmpl)

\* C32: lookup and store on one key never change the presence or the content
\* of an entry under another key: what was cached for another triple is in the
\* store after the call as it was before, so a lookup of it finds what it
\* found before.
C32_OtherKeysUntouched ==
    [][KeyedCall =>
          \A k \in (DOMAIN db \cup DOMAIN db') \ {CalledKey} :
              k \in DOMAIN db /\ k \in DOMAIN db' /\ db'[k] = db[k]]_vars

\* C32 witness: a lookup found its entry expired and removed it, and the
\* expired entry of another key is in the store as it was
C32_Witness ==
    /\ enabled /\ last.op = "lookup" /\ last.arm = "expired"
    /\ LastKey \notin DOMAIN db
    /\ \E k \in DOMAIN db :
          /\ k # LastKey /\ k \in DOMAIN last.pre
          /\ db[k] = to_bytes(last.pre[k])
          /\ is_expired(last.pre[k], now)

\* ---------------------------------------------------------------------------
\* Specification SpecRace: threads sharing one CacheManager. lookup and
\* cleanup_expired are taken one store operation at a time: between the read
\* of an entry and its remove the other threads run.
\* ---------------------------------------------------------------------------

\* calls of store, and of lookup, per behaviour
MaxRaceOps == 2

RaceTexts == {<<"a">>, <<"b">>}

RaceKey(text) == generate_key(text, model_name, prompt_template_hash(prompt_template))

\* what an open at instant 0 leaves of a store found on disk
RaceStores ==
    {[k \in {RaceKey(text) : text \in S} |-> to_bytes(CacheEntry_new(<<"r">>, 0, 0))] :
        S \in SUBSET RaceTexts}

IdleLookup == [pc |-> "idle", key |-> <<>>, n |-> 0]
IdleSweep  == [pc |-> "idle", t |-> 0, key |-> <<>>, seen |-> {}, count |-> 0, deleted |-> 0]

InitRace ==
    /\ db \in RaceStores
    /\ written = NoWritten
    /\ now = 0
    /\ enabled = TRUE
    /\ ttl_days \in TtlDays
    /\ last = NoCall
    /\ nops = 0
    /\ tasks = IdleTasks
    /\ nreqs = 0
    /\ codec = NoCodec
    /\ call = [stage |-> "race", look |-> IdleLookup, sweep |-> IdleSweep, stores |-> 0]

\* a thread calls store
RaceStore(text, response) ==
    /\ call.stores < MaxRaceOps
    /\ db' = store(db, enabled, ttl_days, text, response, model_name,
                   prompt_template_hash(prompt_template), now, FALSE).db
    /\ call' = [call EXCEPT !.stores = @ + 1]
    /\ UNCHANGED <<written, now, enabled, ttl_days, last, nops, tasks, nreqs, codec>>

\* lookup up to is_expired: on an expired entry the remove is still to come
RaceLookupRead(text) ==
    /\ call.look.pc = "idle"
    /\ call.look.n < MaxRaceOps
    /\ LET r == lookup_read(db, RaceKey(text), now, FALSE)
       IN  call' = [call EXCEPT !.look = [pc  |-> IF r.arm = "expired" THEN "remove" ELSE "idle",
                                           key |-> RaceKey(text),
                                           n   |-> call.look.n + 1]]
    /\ UNCHANGED <<db, written, now, enabled, ttl_days, last, nops, tasks, nreqs, codec>>

\* lookup's db.remove(&key) of the key it read
RaceLookupRemove ==
    /\ call.look.pc = "remove"
    /\ db' = db_remove(db, call.look.key)
    /\ call' = [call EXCEPT !.look.pc = "idle"]
    /\ UNCHANGED <<written, now, enabled, ttl_days, last, nops, tasks, nreqs, codec>>

\* cleanup_expired takes the time and starts to iterate
SweepBegin ==
    /\ call.sweep.pc = "idle"
    /\ call' = [call EXCEPT !.sweep = [IdleSweep EXCEPT !.pc = "scan", !.t = now]]
    /\ UNCHANGED <<db, written, now, enabled, ttl_days, last, nops, tasks, nreqs, codec>>

\* the iteration yields the next item: an entry that reads as expired is to be
\* removed, any other is passed over
SweepNext(k) ==
    /\ call.sweep.pc = "scan"
    /\ k \in DOMAIN db \ call.sweep.seen
    /\ LET fb == from_bytes(db[k])
       IN  call' = [call EXCEPT !.sweep.seen = @ \cup {k},
                                !.sweep.key  = k,
                                !.sweep.pc   = IF fb.ok /\ fb.entry.expires_at < call.sweep.t
                                               THEN "remove" ELSE "scan"]
    /\ UNCHANGED <<db, written, now, enabled, ttl_days, last, nops, tasks, nreqs, codec>>

\* db.remove(key) of the item: counted when remove returns Ok, which it does
\* also when the key is no longer there
SweepRemove ==
    /\ call.sweep.pc = "remove"
    /\ db' = db_remove(db, call.sweep.key)
    /\ call' = [call EXCEPT !.sweep.pc = "scan",
                            !.sweep.count = @ + 1,
                            !.sweep.deleted = IF call.sweep.key \in DOMAIN db THEN @ + 1 ELSE @]
    /\ UNCHANGED <<written, now, enabled, ttl_days, last, nops, tasks, nreqs, codec>>

\* the iteration is over: Ok(removed_count)
SweepEnd ==
    /\ call.sweep.pc = "scan"
    /\ DOMAIN db \subseteq call.sweep.seen
    /\ call' = [call EXCEPT !.sweep.pc = "returned"]
    /\ UNCHANGED <<db, written, now, enabled, ttl_days, last, nops, tasks, nreqs, codec>>

NextRace ==
    \/ Tick
    \/ \E text \in RaceTexts : RaceStore(text, <<"r">>)
    \/ \E text \in RaceTexts : RaceLookupRead(text)
    \/ RaceLookupRemove
    \/ SweepBegin
    \/ \E k \in DOMAIN db : SweepNext(k)
    \/ SweepRemove
    \/ SweepEnd

SpecRace == InitRace /\ [][NextRace]_vars

\* the entry under key k, as the store holds it, is expired now
ExpiredNow(k) == from_bytes(db[k]).ok /\ is_expired(from_bytes(db[k]).entry, now)

\* C33: under any interleaving of the tasks lookup deletes expired entries
\* only: an entry that is not expired at the moment of the remove (one a store
\* wrote after lookup read the old entry, say) is never deleted by lookup.
C33_LookupDeletesOnlyExpired ==
    [][(/\ call.look.pc = "remove" /\ call'.look.pc = "idle"
        /\ call.look.key \in DOMAIN db /\ call.look.key \notin DOMAIN db')
       => ExpiredNow(call.look.key)]_vars

\* C34: under any interleaving with store and lookup calls, cleanup_expired
\* removes only entries that are expired at the moment it removes them, and
\* the count it returns is the number of entries its own removes deleted.
C34_SweepDeletesAndCountsItsOwn ==
    [][/\ (/\ call.sweep.pc = "remove" /\ call'.sweep.pc = "scan"
           /\ call.sweep.key \in DOMAIN db /\ call.sweep.key \notin DOMAIN db')
          => ExpiredNow(call.sweep.key)
       /\ call'.sweep.pc = "returned" => call'.sweep.count = call'.sweep.deleted]_vars

\* ---------------------------------------------------------------------------
\* More claims about the parsing of the provider's response (SpecLlm)
\* ---------------------------------------------------------------------------

\* C35: the cut always gives a result: for every extracted text, one of
\* multi-byte characters whose 2000th byte is inside a character included,
\* the adapter returns a string and never aborts the task of the request.
C35_TruncationNeverAborts ==
    (call.stage = "parsed" /\ HasFamilyShape) =>
        /\ call.result # Panicked
        /\ call.result.kind = "ok"

\* ---------------------------------------------------------------------------
\* The model of the request and the model of the cache key
\* ---------------------------------------------------------------------------

\* C36: the model named in the body sent to the provider is always the
\* configured model_name, the value the cache key is made of: no override
\* makes the provider answer with another model than the one the entry is
\* filed under.
C36_BodyModelIsTheKeyModel ==
    Built =>
        /\ "model" \in DOMAIN call.payload
        /\ call.payload["model"] = JStr(call.config.model_name)

\* ---------------------------------------------------------------------------
\* Specification SpecRuns: two runs of the service over one store, each under
\* its own configuration: the first answers a request on the miss path and
\* stores the response, the second looks the same text up
\* ---------------------------------------------------------------------------

\* the handler's template hash under a configuration
config_template_hash(config) ==
    prompt_template_hash(IF config.prompt_template.some THEN config.prompt_template.v
                         ELSE NoTemplate)

\* mutant: the family of the provider's URL goes into the key
handler_key_with_family(text, config) ==
    generate_key(text,
                 config.model_name \o (IF is_ollama(config.llm_url) THEN <<>> ELSE <<"s">>),
                 config_template_hash(config))

\* the key the handler's lookup and store use under a configuration
handler_key(text, config) ==
    generate_key(text, config.model_name, config_template_hash(config))

RunConfigs ==
    [llm_url : LlmUrls, model_name : Models,
     llm_params : {NoneOf, SomeOf(JObj([temperature |-> JNumber("1.5")]))},
     prompt_template : {NoneOf, SomeOf(<<"a">>)}, openai_api_key : ApiKeys,
     openai_org_id : {NoneOf}, openai_project_id : {NoneOf}]

InitRuns ==
    /\ db = EmptyDb
    /\ written = NoWritten
    /\ now = 0
    /\ enabled = TRUE
    /\ ttl_days = 1
    /\ last = NoCall
    /\ nops = 0
    /\ tasks = IdleTasks
    /\ nreqs = 0
    /\ codec = NoCodec
    /\ \E c1 \in RunConfigs, c2 \in RunConfigs, text \in Texts, response \in Responses :
          call = [stage |-> "first", first |-> c1, second |-> c2, text |-> text,
                  response |-> response, key1 |-> <<>>, key2 |-> <<>>, hit |-> None]

\* the first run: the request misses, the provider answers, the handler stores
FirstRun ==
    /\ call.stage = "first"
    /\ db' = db_insert(db, handler_key(call.text, call.first),
                       to_bytes(CacheEntry_new(call.response, ttl_days, now)))
    /\ call' = [call EXCEPT !.stage = "second", !.key1 = handler_key(call.text, call.first)]
    /\ UNCHANGED <<written, now, enabled, ttl_days, last, nops, tasks, nreqs, codec>>

\* the second run: the handler's lookup of the text under the other configuration
SecondRun ==
    /\ call.stage = "second"
    /\ LET key == handler_key(call.text, call.second)
           r   == lookup_read(db, key, now, FALSE)
       IN  /\ call' = [call EXCEPT !.stage = "done", !.key2 = key, !.hit = lookup_result(r)]
           /\ db' = IF r.arm = "expired" THEN db_remove(db, key) ELSE db
    /\ UNCHANGED <<written, now, enabled, ttl_days, last, nops, tasks, nreqs, codec>>

NextRuns == FirstRun \/ SecondRun

SpecRuns == InitRuns /\ [][NextRuns]_vars

\* the two configurations have the same model_name and prompt template
SameTriple ==
    /\ call.first.model_name = call.second.model_name
    /\ call.first.prompt_template = call.second.prompt_template

\* what a lookup of the text gives in the run that stored it
HitInFirst == lookup_result(lookup_read(db, call.key1, now, FALSE))

\* C37: the cache key depends on the text, model_name and prompt template
\* only: two runs whose configurations differ in the provider's URL, the
\* overrides or the credentials only make the same key for the same text, and
\* the second run's lookup gives what a lookup in the first run gives, the
\* stored response as a hit when that one reads back.
C37_KeyIgnoresProviderSettings ==
    (call.stage = "done" /\ SameTriple) =>
        /\ call.key2 = call.key1
        /\ call.hit = HitInFirst
        /\ (\A i \in 1..Len(call.response) : call.response[i] # Pipe) =>
              call.hit = Some(call.response)

\* C37 witness: stored under an Ollama URL without a key and without
\* overrides, the response was a hit under an OpenAI URL with key and overrides
C37_Witness ==
    /\ call.stage = "done" /\ SameTriple
    /\ call.first.llm_url \in OllamaUrls /\ call.second.llm_url \in BearerUrls
    /\ call.first.llm_params # call.second.llm_params
    /\ call.first.openai_api_key # call.second.openai_api_key
    /\ call.hit = Some(<<"r">>)

\* bodies of the structured-responses family whose text is not at
\* output[0].content[0]: in a later content element, in a later output
\* element, or under a first output element without a content array
TextElsewhere ==
    {JObj([output |-> JArr(<<JObj([content |-> JArr(<<JObj([kind |-> JNum]),
                                                      JObj([text |-> JStr(TextO)])>>)])>>)]),
     JObj([output |-> JArr(<<JObj([kind |-> JNum]),
                             JObj([content |-> JArr(<<JObj([text |-> JStr(TextO)])>>)])>>)]),
     JObj([output |-> JArr(<<JObj([text |-> JStr(TextO)])>>)]),
     JObj([output |-> JArr(<<JObj([content |-> JStr(TextO)])>>)])}

\* C38: for the structured-responses family the parser looks at the first
\* element of output and the first element of its content only: a text in a
\* later output or content element, or a first element without a content
\* array, gives the unrecognized-format error and not that text.
C38_FirstElementsOnly ==
    (/\ call.stage = "parsed"
     /\ call.llm_url \in LlmUrls \ OllamaUrls
     /\ call.response_data \in TextElsewhere)
    => /\ call.result = UnrecognizedFormat(call.response_data)
       /\ call.result.kind # "ok"

\* C38 witness: a body with the text in the second output element was parsed
\* under an OpenAI URL to the format error
C38_Witness ==
    /\ call.stage = "parsed"
    /\ call.llm_url \in LlmUrls \ OllamaUrls
    /\ call.response_data =
          JObj([output |-> JArr(<<JObj([kind |-> JNum]),
                                  JObj([content |-> JArr(<<JObj([text |-> JStr(TextO)])>>)])>>)])
    /\ call.result.kind = "llm_err"
    /\ call.result.err = "Unrecognized LLM response format"
====
